---- MODULE Spec2Model ----
(***************************************************************************)
(* Model of dvm (docker-volume-manager): the Backup, Restore, Swap,        *)
(* Archive and Clean workflows of internal/commands, over the container    *)
(* engine wrapper (internal/docker), the metadata store                    *)
(* (internal/database) and the backup directories of the file system.      *)
(*                                                                         *)
(* Names (service, volume, file base names) are sequences of tokens: the   *)
(* tokens are the pieces between the "_" separators, so the physical       *)
(* volume "p_data" is <<"p", "data">> and fmt.Sprintf("%s_%s", a, b) is    *)
(* a \o b.  One invocation of the tool runs at a time (the tool is         *)
(* single-threaded); every call of the engine, the store or the file       *)
(* system that returns an error in the code may fail here.                 *)
(* VolumeExists is taken to answer truthfully.                             *)
(***************************************************************************)
EXTENDS Integers, Sequences, FiniteSets, TLC

\* ---------------------------------------------------------------- bounds
MaxTime == 2          \* the clock stops advancing at this second
MaxRuns == 1          \* invocations of the tool in one behaviour
MaxKeep == 2          \* largest keep_generations a configuration sets

\* ----------------------------------------------------- program constants
SecondsPerDay == 86400   \* the date part of the "2006-01-02_150405" layout

\* ------------------------------------------------------------- fixtures
\* The project of the compose file: name "p", three services, two of them
\* sharing the named volume "data".
ProjectName == <<"p">>
Web == <<"web">>
Worker == <<"worker">>
Db == <<"db">>
Ghost == <<"ghost">>      \* a name that is neither a service nor a volume
ServiceNames == {Web, Worker, Db}

\* ComposeFile.Services[s].Volumes after GetVolumeMapping: the declared
\* named volumes of a service, in declaration order.
ServiceVolumes(s) ==
    IF s = Db THEN << <<"dbdata">> >>
    ELSE IF s \in {Web, Worker} THEN << <<"data">> >>
    ELSE << >>

PData == ProjectName \o <<"data">>
PDbData == ProjectName \o <<"dbdata">>
AllVolumes == {PData, PDbData}

\* The containers of the engine and the volume each one mounts
\* (container.Mounts[].Name), in the order ContainerList returns them.
ContainerOrder == <<"c1", "c2">>
Containers == {"c1", "c2"}
Mounts(c) == PData

NoName == << >>       \* the empty string

\* ---------------------------------------------------------------- state
VARIABLES
    volumes,    \* engine: the volumes that exist, name -> the data it holds
    running,    \* engine: the containers that are running
    files,      \* file system: path -> [data, mtime] of the archive files
    ledger,     \* store: the rows of backup_records
    nextId,     \* store: the AUTOINCREMENT counter of backup_records
    meta,       \* store: the rows of volume_metadata, by volume name
    now,        \* the wall clock, in seconds
    runs,       \* invocations started so far
    cmd,        \* the running invocation: command, options, loaded context
    pc,         \* the position of the running invocation
    targets,    \* the target list of a multi-target workflow
    idx,        \* the index of the target being processed
    loc,        \* the local variables of the running per-target function
    result,     \* the error the last finished invocation returned
    log,        \* the engine and prompt calls of the running invocation
    report,     \* per target attempted by the running invocation: outcome
    snap,       \* the engine, the files and the store when the invocation began
    hist        \* per volume: the backupVolume calls so far, while all succeeded

engineVars == <<volumes, running>>
storeVars == <<ledger, nextId, meta>>
worldVars == <<volumes, running, files, ledger, nextId, meta>>
vars == <<volumes, running, files, ledger, nextId, meta, now, runs,
          cmd, pc, targets, idx, loc, result, log, report, snap, hist>>

\* ---------------------------------------------------------------- errors
\* An error is [chain, also]: chain is the messages from the outermost
\* wrapper down to the root cause (fmt.Errorf("...: %w", err) puts one
\* message in front), also is the chain of an error attached with %v.
Nil == [chain |-> << >>, also |-> << >>]
Err(msg) == [chain |-> <<msg>>, also |-> << >>]
Wrap(msg, err) == [chain |-> <<msg>> \o err.chain, also |-> err.also]
ErrVolumeNotFound == Err("volume not found")
ErrComposeNotFound == Err("compose file not found")
ErrBackupNotFound == Err("backup not found")
EngineErr(op) == Err("engine: " \o op)
StoreErr(op) == Err("store: " \o op)

\* ------------------------------------------------------------- helpers
Range(s) == {s[i] : i \in 1..Len(s)}

IsPrefix(p, s) == Len(p) <= Len(s) /\ SubSeq(s, 1, Len(p)) = p

Min(a, b) == IF a < b THEN a ELSE b

\* The permutations of a finite set, as sequences.
Perms(S) == {s \in [1..Cardinality(S) -> S] : \A i, j \in 1..Cardinality(S) : i # j => s[i] # s[j]}

\* Context.ProjectName: set by LoadCompose, "" when no compose file loaded.
Project == IF cmd.compose THEN ProjectName ELSE NoName

\* docker.Client.VolumeExists
VolumeExists(v) == v \in DOMAIN volumes

\* docker.Client.GetContainersUsingVolume, when ContainerList succeeds
ContainersUsing(v) == SelectSeq(ContainerOrder, LAMBDA c : Mounts(c) = v)

\* ------------------------------------------------------ compose resolver
\* ComposeFile.GetFullVolumeName: project + "_" + the FIRST named volume of
\* the service; NoName stands for the error return.
GetFullVolumeName(s, project) ==
    IF s \in ServiceNames /\ Len(ServiceVolumes(s)) > 0
    THEN project \o ServiceVolumes(s)[1]
    ELSE NoName

\* ComposeFile.GetAllVolumeMappings over the services in the order `order`
\* (Go iterates the Services map in an unspecified order), as declared
\* volume names.
RECURSIVE MappingsInOrder(_)
MappingsInOrder(order) ==
    IF order = << >> THEN << >>
    ELSE ServiceVolumes(Head(order)) \o MappingsInOrder(Tail(order))

\* The de-duplication loop of GetAllFullVolumeNames.
RECURSIVE DedupFullNames(_, _, _)
DedupFullNames(mappings, project, seen) ==
    IF mappings = << >> THEN << >>
    ELSE LET fullName == project \o Head(mappings)
         IN IF fullName \in seen
            THEN DedupFullNames(Tail(mappings), project, seen)
            ELSE <<fullName>> \o DedupFullNames(Tail(mappings), project, seen \cup {fullName})

\* GetAllFullVolumeNames without its seen map
GetAllFullVolumeNames_NoSeen(order, project) ==
    [i \in 1..Len(MappingsInOrder(order)) |-> project \o MappingsInOrder(order)[i]]

\* ComposeFile.GetAllFullVolumeNames for one iteration order of the services
GetAllFullVolumeNames(order, project) ==
    DedupFullNames(MappingsInOrder(order), project, {})

\* ComposeFile.GetServiceByVolumeName: the services one of whose named
\* volumes is the volume name with the project prefix stripped; the code
\* returns the first one the map iteration meets, so any of them.
ServicesOfVolume(v, project) ==
    LET prefix == project
        shortName == IF project # NoName /\ IsPrefix(prefix, v) /\ Len(v) > Len(prefix)
                     THEN SubSeq(v, Len(prefix) + 1, Len(v)) ELSE v
    IN {s \in ServiceNames : shortName \in Range(ServiceVolumes(s))}

\* Context.GetServiceName: the possible answers; NoName when no compose
\* file is loaded or no service matches.
GetServiceNames(v) ==
    IF ~cmd.compose THEN {NoName}
    ELSE IF ServicesOfVolume(v, Project) = {} THEN {NoName}
    ELSE ServicesOfVolume(v, Project)

\* ResolveVolumeName trying the project prefix before the name itself
ResolveVolumeName_PrefixFirst(s) ==
    IF cmd.compose /\ GetFullVolumeName(s, Project) # NoName
    THEN GetFullVolumeName(s, Project)
    ELSE IF Project # NoName /\ VolumeExists(Project \o s) THEN Project \o s
    ELSE IF VolumeExists(s) THEN s
    ELSE NoName

\* Context.ResolveVolumeName; NoName stands for ErrVolumeNotFound.
ResolveVolumeName(s) ==
    IF cmd.compose /\ GetFullVolumeName(s, Project) # NoName
    THEN GetFullVolumeName(s, Project)
    ELSE IF VolumeExists(s) THEN s
    ELSE IF Project # NoName /\ VolumeExists(Project \o s) THEN Project \o s
    ELSE NoName

\* ------------------------------------------------------------ file names
\* time.Now().Format("2006-01-02_150405"): a date token and a time token
Timestamp(t) == <<ToString(t \div SecondsPerDay), ToString(t % SecondsPerDay)>>

Extension(format) ==
    IF format = "tar.zst" THEN "tar.zst"
    ELSE IF format = "tar" THEN "tar"
    ELSE "tar.gz"

\* A file name made of the timestamp alone
GenerateBackupFilename_NoName(name, format, t) ==
    [name |-> Timestamp(t), ext |-> Extension(format)]

\* commands.GenerateBackupFilename at clock t
GenerateBackupFilename(name, format, t) ==
    [name |-> name \o Timestamp(t), ext |-> Extension(format)]

\* filepath.Join(dir, filename)
JoinPath(dir, filename) == [dir |-> dir, name |-> filename.name, ext |-> filename.ext]

BackupsDir(project) == <<"backups">> \o project
ArchivesDir(project) == <<"archives">> \o project
CleanupDir == <<"archives", "cleanup">>

\* os.Rename(tempPath, outputPath) after a data-mover run: the archive of
\* the volume's data replaces whatever the path held.
WriteFile(fs, path, data, t) ==
    [p \in DOMAIN fs \cup {path} |-> IF p = path THEN [data |-> data, mtime |-> t] ELSE fs[p]]

RemoveFiles(fs, paths) == [p \in DOMAIN fs \ paths |-> fs[p]]

\* ------------------------------------------------------------ the store
\* database.AddBackupRecord: id from AUTOINCREMENT, created_at from
\* CURRENT_TIMESTAMP (one-second resolution).
NewRecord(vol, svc, project, path, tag) ==
    [id |-> nextId, volumeName |-> vol, serviceName |-> svc, projectName |-> project,
     filePath |-> path, createdAt |-> now, tag |-> tag]

RecordsOf(vol) == {r \in ledger : r.volumeName = vol}

\* database.UpdateLastBackup: upsert of the volume's row (a NULL timestamp
\* is << >>, a set one <<t>>)
UpdateLastBackup(m, vol, t) ==
    IF vol \in DOMAIN m
    THEN [m EXCEPT ![vol] = [@ EXCEPT !.lastBackup = <<t>>, !.backupCount = @ + 1]]
    ELSE [v \in DOMAIN m \cup {vol} |->
            IF v = vol THEN [lastAccessed |-> << >>, lastBackup |-> <<t>>, backupCount |-> 1]
            ELSE m[v]]

\* database.UpdateLastAccessed: upsert of the volume's row
UpdateLastAccessed(m, vol, t) ==
    IF vol \in DOMAIN m
    THEN [m EXCEPT ![vol] = [@ EXCEPT !.lastAccessed = <<t>>]]
    ELSE [v \in DOMAIN m \cup {vol} |->
            IF v = vol THEN [lastAccessed |-> <<t>>, lastBackup |-> << >>, backupCount |-> 0]
            ELSE m[v]]

\* database.CleanupOldBackups: GetBackupRecords orders by created_at DESC
\* (rows of the same second in an order SQL leaves open) and the rows after
\* the first keepGenerations are deleted.  The possible toDelete sets.
ToDeleteSets(vol, keepGenerations) ==
    LET recs == RecordsOf(vol)
        n == Cardinality(recs)
    IN IF n > keepGenerations
       THEN {D \in SUBSET recs :
                /\ Cardinality(D) = n - keepGenerations
                /\ \A d \in D, k \in recs \ D : d.createdAt <= k.createdAt}
       ELSE {}

\* ----------------------------------------------------- engine outcomes
Advance(t, dt) == Min(t + dt, MaxTime)

FirstN(s, n) == {s[i] : i \in 1..n}

\* docker.Client.StopContainersUsingVolume: the list may fail; the loop
\* stops the containers in order and returns at the first ContainerStop
\* that fails.  [ok, stopped]: the result and the containers stopped.
StopOutcomes(v) ==
    LET cs == ContainersUsing(v)
    IN {[ok |-> FALSE, stopped |-> {}]} \cup
       {[ok |-> (n = Len(cs)), stopped |-> FirstN(cs, n)] : n \in 0..Len(cs)}

\* docker.Client.RestartContainersUsingVolume: the same shape, with
\* ContainerRestart.  [ok, restarted, attempted].
RestartOutcomes(v) ==
    LET cs == ContainersUsing(v)
    IN {[ok |-> FALSE, restarted |-> {}, attempted |-> {}]} \cup
       {[ok |-> (n = Len(cs)), restarted |-> FirstN(cs, n),
         attempted |-> FirstN(cs, Min(n + 1, Len(cs)))] : n \in 0..Len(cs)}

Call(op, v, ok) == [op |-> op, vol |-> v, ok |-> ok]

\* ------------------------------------------------------------ invocation
NoPath == [dir |-> << >>, name |-> << >>, ext |-> ""]
NoLoc == [vol |-> NoName, svc |-> NoName, path |-> NoPath, id |-> 0,
          containers |-> << >>, stopped |-> FALSE, err |-> Nil]

World == [volumes |-> volumes, running |-> running,
          files |-> files, ledger |-> ledger, meta |-> meta]

\* main: one process per command line.  The configuration and the compose
\* file are loaded anew by every invocation.
Invoke(c) ==
    /\ pc = "idle"
    /\ runs < MaxRuns
    /\ runs' = runs + 1
    /\ cmd' = c
    /\ pc' = "start"
    /\ targets' = << >>
    /\ idx' = 0
    /\ loc' = NoLoc
    /\ log' = << >>
    /\ report' = << >>
    /\ snap' = World
    /\ UNCHANGED <<worldVars, now, result, hist>>

\* runCommand: the workflow returned err
Return(err) ==
    /\ pc' = "idle"
    /\ result' = err

\* A loop that returns at the first error of its per-target function
ItemDone_StopOnError(err, loop) ==
    /\ report' = Append(report, [target |-> targets[idx], err |-> err])
    /\ idx' = IF err = Nil THEN idx + 1 ELSE idx
    /\ loc' = NoLoc
    /\ pc' = IF err = Nil THEN loop ELSE "idle"

\* A per-target function returned err to the loop of its workflow: the
\* error is printed and the loop continues with the next target.
ItemDone(err, loop) ==
    /\ report' = Append(report, [target |-> targets[idx], err |-> err])
    /\ idx' = idx + 1
    /\ loc' = NoLoc
    /\ pc' = loop

\* ---------------------------------------------------------------- Backup
\* config.Config: Defaults.KeepGenerations and the project's own setting
KeepChoices ==
    {[keepDefault |-> d, keepProject |-> 0] : d \in 0..MaxKeep}
        \cup {[keepDefault |-> MaxKeep, keepProject |-> 1]}

\* BackupOptions and the loaded context of one "dvm backup" command line
BackupCommands ==
    {[name |-> "backup", services |-> s.services, stop |-> s.stop,
      keepDefault |-> k.keepDefault, keepProject |-> k.keepProject,
      compose |-> s.compose] :
        s \in {[services |-> << >>, compose |-> TRUE, stop |-> FALSE],
               [services |-> << >>, compose |-> FALSE, stop |-> FALSE],
               [services |-> <<Web, Worker>>, compose |-> TRUE, stop |-> TRUE],
               [services |-> <<Ghost, Db>>, compose |-> TRUE, stop |-> FALSE],
               [services |-> <<PData>>, compose |-> FALSE, stop |-> FALSE]},
        k \in KeepChoices}

\* The loop "Backup specific services": unresolved names are skipped.
RECURSIVE ResolveAll(_)
ResolveAll(services) ==
    IF services = << >> THEN << >>
    ELSE IF ResolveVolumeName(Head(services)) = NoName THEN ResolveAll(Tail(services))
    ELSE <<ResolveVolumeName(Head(services))>> \o ResolveAll(Tail(services))

\* Backup, up to the loop: the target list and the output directory.
BackupTargets ==
    /\ pc = "start"
    /\ cmd.name = "backup"
    /\ UNCHANGED <<worldVars, now, runs, cmd, loc, log, report, snap, hist>>
    /\ IF cmd.services = << >> /\ ~cmd.compose
       THEN Return(ErrComposeNotFound) /\ UNCHANGED <<targets, idx>>
       ELSE \E order \in Perms(ServiceNames), dirOk \in BOOLEAN :
              LET ts == IF cmd.services = << >>
                        THEN GetAllFullVolumeNames(order, Project)
                        ELSE ResolveAll(cmd.services)
              IN IF ts = << >>
                 THEN Return(Nil) /\ UNCHANGED <<targets, idx>>
                 ELSE IF ~dirOk
                 THEN /\ Return(Wrap("failed to create output directory", Err("fs: mkdir")))
                      /\ UNCHANGED <<targets, idx>>
                 ELSE /\ targets' = ts
                      /\ idx' = 1
                      /\ pc' = "backup_loop"
                      /\ UNCHANGED result

\* The loop of Backup starting again, when it ends, the containers that
\* ran when Backup began
BackupLoop_Restarts ==
    /\ pc = "backup_loop"
    /\ UNCHANGED <<volumes, files, storeVars, now, runs, cmd, targets, idx, log, report, snap, hist>>
    /\ IF idx > Len(targets)
       THEN Return(Nil) /\ running' = snap.running /\ UNCHANGED loc
       ELSE /\ pc' = "bv_check"
            /\ loc' = [NoLoc EXCEPT !.vol = targets[idx]]
            /\ UNCHANGED <<running, result>>

\* The loop of Backup: an error of backupVolume is printed and the loop
\* goes on; Backup returns nil.
BackupLoop ==
    /\ pc = "backup_loop"
    /\ UNCHANGED <<worldVars, now, runs, cmd, targets, idx, log, report, snap, hist>>
    /\ IF idx > Len(targets)
       THEN Return(Nil) /\ UNCHANGED loc
       ELSE /\ pc' = "bv_check"
            /\ loc' = [NoLoc EXCEPT !.vol = targets[idx]]
            /\ UNCHANGED result

\* The backupVolume calls of a volume so far: the keep count they ran with
\* and the rows and files they made, as long as every call succeeded in
\* every step and ran with the same keep count; dirty since one did not.
NoHistory == [dirty |-> FALSE, keep |-> -1, made |-> << >>]
Dirty == [dirty |-> TRUE, keep |-> -1, made |-> << >>]

Noted(h, keep, id, path, clean) ==
    IF h.dirty \/ ~clean \/ (h.made # << >> /\ h.keep # keep) THEN Dirty
    ELSE [dirty |-> FALSE, keep |-> keep, made |-> Append(h.made, [id |-> id, path |-> path])]

BackupItemFailed(err) ==
    /\ ItemDone(err, "backup_loop")
    /\ hist' = [hist EXCEPT ![loc.vol] = Dirty]

\* backupVolume: existence check, --stop
BackupVolumeCheck ==
    /\ pc = "bv_check"
    /\ UNCHANGED <<volumes, files, storeVars, now, runs, cmd, targets, result, snap>>
    /\ IF ~VolumeExists(loc.vol)
       THEN BackupItemFailed(ErrVolumeNotFound) /\ UNCHANGED <<running, log>>
       ELSE IF cmd.stop
       THEN \E o \in StopOutcomes(loc.vol) :
              /\ running' = running \ o.stopped
              /\ log' = Append(log, Call("stop", loc.vol, o.ok))
              /\ IF o.ok
                 THEN /\ pc' = "bv_run"
                      /\ UNCHANGED <<idx, loc, report, hist>>
                 ELSE BackupItemFailed(Wrap("failed to stop containers", EngineErr("stop")))
       ELSE /\ pc' = "bv_run"
            /\ UNCHANGED <<running, log, idx, loc, report, hist>>

\* backupVolume: the file name from the physical volume name, then the
\* data-mover run (docker.Client.BackupVolume) and its rename.
BackupVolumeRun ==
    /\ pc = "bv_run"
    /\ UNCHANGED <<engineVars, storeVars, runs, cmd, targets, result, snap>>
    /\ LET filename == GenerateBackupFilename(loc.vol, "tar.gz", now)
           outputPath == JoinPath(BackupsDir(Project), filename)
       IN \E ok \in BOOLEAN, dt \in {0, 1} :
            /\ now' = Advance(now, dt)
            /\ log' = Append(log, Call("backup", loc.vol, ok))
            /\ IF ok
               THEN /\ files' = WriteFile(files, outputPath, volumes[loc.vol], now')
                    /\ loc' = [loc EXCEPT !.path = outputPath]
                    /\ pc' = "bv_record"
                    /\ UNCHANGED <<idx, report, hist>>
               ELSE /\ dt = 0
                    /\ BackupItemFailed(Wrap("backup failed", EngineErr("backup")))
                    /\ UNCHANGED files

\* backupVolume: the ledger row (service name from GetServiceName), then
\* the volume's last-backup metadata
BackupVolumeRecord ==
    /\ pc = "bv_record"
    /\ UNCHANGED <<engineVars, files, now, runs, cmd, targets, result, snap>>
    /\ \E addOk \in BOOLEAN, metaOk \in BOOLEAN, svc \in GetServiceNames(loc.vol) :
         /\ log' = Append(log, Call("record", loc.vol, addOk))
         /\ IF ~addOk
            THEN /\ BackupItemFailed(Wrap("backup completed but failed to save backup record",
                                          StoreErr("insert")))
                 /\ UNCHANGED storeVars
            ELSE /\ ledger' = ledger \cup {NewRecord(loc.vol, svc, Project, loc.path, "")}
                 /\ nextId' = nextId + 1
                 /\ IF ~metaOk
                    THEN /\ BackupItemFailed(Wrap("backup completed but failed to update metadata",
                                                  StoreErr("upsert")))
                         /\ UNCHANGED meta
                    ELSE /\ meta' = UpdateLastBackup(meta, loc.vol, now)
                         /\ loc' = [loc EXCEPT !.id = nextId]
                         /\ pc' = "bv_cleanup"
                         /\ UNCHANGED <<idx, report, hist>>

\* backupVolume: keepGenerations of the configuration
KeepGenerations ==
    IF cmd.keepProject > 0 THEN cmd.keepProject ELSE cmd.keepDefault

\* backupVolume: retention.  CleanupOldBackups deletes the rows, then the
\* files of the rows it returned are removed; a failure of either is not an
\* error of the backup.
BackupVolumeCleanup ==
    /\ pc = "bv_cleanup"
    /\ UNCHANGED <<engineVars, nextId, meta, now, runs, cmd, targets, result, log, snap>>
    /\ ItemDone(Nil, "backup_loop")
    /\ LET sets == IF KeepGenerations > 0 THEN ToDeleteSets(loc.vol, KeepGenerations) ELSE {}
           noted(clean) == [hist EXCEPT ![loc.vol] =
                               Noted(@, KeepGenerations, loc.id, loc.path, clean)]
       IN IF sets = {}
          THEN /\ UNCHANGED <<ledger, files>>
               /\ hist' = noted(TRUE)
          ELSE \E toDelete \in sets :
                 \/ \* every DeleteBackupRecord succeeded; os.Remove may fail
                    \E removed \in SUBSET {r.filePath : r \in toDelete} :
                      /\ ledger' = ledger \ toDelete
                      /\ files' = RemoveFiles(files, removed)
                      /\ hist' = noted(removed = {r.filePath : r \in toDelete})
                 \/ \* the query or a DeleteBackupRecord failed: no file is removed
                    \E gone \in SUBSET toDelete :
                      /\ gone # toDelete
                      /\ ledger' = ledger \ gone
                      /\ UNCHANGED files
                      /\ hist' = noted(FALSE)

BackupNext ==
    \/ \E c \in BackupCommands : Invoke(c)
    \/ BackupTargets
    \/ BackupLoop
    \/ BackupVolumeCheck
    \/ BackupVolumeRun
    \/ BackupVolumeRecord
    \/ BackupVolumeCleanup

\* ------------------------------------------------- engine data-movers
DefaultFormat == "tar.gz"     \* Config.Defaults.CompressFormat

LiveData(v) == <<"live">> \o v
OldData(v) == <<"old">> \o v
EmptyData == <<"empty">>
PartialData == <<"partial">>

\* docker.Client.CreateVolume, succeeding
CreateVolume(vols, v) ==
    [x \in DOMAIN vols \cup {v} |-> IF x = v /\ v \notin DOMAIN vols THEN EmptyData ELSE vols[x]]

\* docker.Client.RemoveVolume, succeeding
RemoveVolume(vols, v) == [x \in DOMAIN vols \ {v} |-> vols[x]]

\* docker.Client.RestoreVolume: the volumes it may leave and its result.
\* A missing archive fails before anything; the volume is created when it
\* does not exist; a failed tar run may have written part of the archive.
RestoreOutcomes(vols, v, path) ==
    IF path \notin DOMAIN files
    THEN {[ok |-> FALSE, ran |-> FALSE, volumes |-> vols]}
    ELSE LET made == CreateVolume(vols, v)
         IN (IF v \in DOMAIN vols THEN {}
             ELSE {[ok |-> FALSE, ran |-> FALSE, volumes |-> vols]}) \cup
            {[ok |-> FALSE, ran |-> TRUE, volumes |-> made],
             [ok |-> FALSE, ran |-> TRUE, volumes |-> [made EXCEPT ![v] = PartialData]],
             [ok |-> TRUE, ran |-> TRUE, volumes |-> [made EXCEPT ![v] = files[path].data]]}

\* ------------------------------------------------------------------ Swap
OldArchive == JoinPath(BackupsDir(ProjectName), GenerateBackupFilename(PData, DefaultFormat, 0))
MissingArchive == JoinPath(<<"tmp">>, [name |-> <<"gone">>, ext |-> "tar.gz"])

\* SwapOptions and the loaded context of one "dvm swap" command line
SwapCommands ==
    {[name |-> "swap", service |-> Web, empty |-> e, noBackup |-> nb, restart |-> r,
      source |-> src, compose |-> TRUE] :
        e \in BOOLEAN, nb \in BOOLEAN, r \in BOOLEAN, src \in {NoPath, OldArchive}}
    \cup
    {[name |-> "swap", service |-> sv, empty |-> FALSE, noBackup |-> TRUE, restart |-> TRUE,
      source |-> MissingArchive, compose |-> co] :
        sv \in {Web, Db, Ghost, NoName, PData}, co \in BOOLEAN}

\* Swap: service name check, volume resolution, existence check
SwapResolve ==
    /\ pc = "start"
    /\ cmd.name = "swap"
    /\ UNCHANGED <<worldVars, now, runs, cmd, targets, idx, log, report, snap, hist>>
    /\ IF cmd.service = NoName
       THEN Return(Err("service name is required")) /\ UNCHANGED loc
       ELSE IF ResolveVolumeName(cmd.service) = NoName
       THEN Return(ErrVolumeNotFound) /\ UNCHANGED loc
       ELSE LET volumeName == ResolveVolumeName(cmd.service)
            IN IF ~VolumeExists(volumeName)
               THEN Return(ErrVolumeNotFound) /\ UNCHANGED loc
               ELSE \E svc \in GetServiceNames(volumeName) :
                      /\ loc' = [NoLoc EXCEPT !.vol = volumeName,
                                              !.svc = IF svc = NoName THEN cmd.service ELSE svc]
                      /\ pc' = IF cmd.noBackup THEN "swap_stop" ELSE "swap_backup"
                      /\ UNCHANGED result

\* Swap: the backup of the current volume (skipped with --no-backup); a
\* failure to save its ledger row is a warning.
SwapBackup ==
    /\ pc = "swap_backup"
    /\ UNCHANGED <<engineVars, meta, runs, cmd, targets, idx, report, snap, hist>>
    /\ LET backupDir == BackupsDir(Project)
           filename == GenerateBackupFilename(loc.svc \o <<"swap", "backup">>, DefaultFormat, now)
           backupPath == JoinPath(backupDir, filename)
       IN \E dirOk \in BOOLEAN, ok \in BOOLEAN, dt \in {0, 1}, addOk \in BOOLEAN :
            IF ~dirOk
            THEN /\ dt = 0 /\ ok /\ addOk
                 /\ Return(Wrap("failed to create backup directory", Err("fs: mkdir")))
                 /\ UNCHANGED <<files, ledger, nextId, now, loc, log>>
            ELSE /\ log' = Append(log, Call("backup", loc.vol, ok))
                 /\ now' = Advance(now, dt)
                 /\ IF ~ok
                    THEN /\ dt = 0 /\ addOk
                         /\ Return(Wrap("backup failed", EngineErr("backup")))
                         /\ UNCHANGED <<files, ledger, nextId, loc>>
                    ELSE /\ files' = WriteFile(files, backupPath, volumes[loc.vol], now')
                         /\ loc' = [loc EXCEPT !.path = backupPath]
                         /\ IF addOk
                            THEN /\ ledger' = ledger \cup
                                      {[NewRecord(loc.vol, loc.svc, Project, backupPath, "swap-backup")
                                          EXCEPT !.createdAt = now']}
                                 /\ nextId' = nextId + 1
                            ELSE UNCHANGED <<ledger, nextId>>
                         /\ pc' = "swap_stop"
                         /\ UNCHANGED result

\* Swap: stop the containers that mount the volume.  An error of the list
\* is dropped (no container is then stopped); an error of the stop returns.
SwapStop ==
    /\ pc = "swap_stop"
    /\ UNCHANGED <<volumes, files, storeVars, now, runs, cmd, targets, idx, report, snap, hist>>
    /\ \E listOk \in BOOLEAN :
         LET containers == IF listOk THEN ContainersUsing(loc.vol) ELSE << >>
         IN IF Len(containers) > 0
            THEN \E o \in StopOutcomes(loc.vol) :
                   /\ running' = running \ o.stopped
                   /\ log' = Append(log, Call("stop", loc.vol, o.ok))
                   /\ IF o.ok
                      THEN /\ loc' = [loc EXCEPT !.containers = containers, !.stopped = TRUE]
                           /\ pc' = "swap_remove"
                           /\ UNCHANGED result
                      ELSE /\ Return(Wrap("failed to stop containers", EngineErr("stop")))
                           /\ loc' = [loc EXCEPT !.containers = containers]
            ELSE /\ loc' = [loc EXCEPT !.containers = containers]
                 /\ pc' = "swap_remove"
                 /\ UNCHANGED <<running, log, result>>

\* A step of Swap failed with err: return restartOnError(err)
SwapFail(err) ==
    /\ loc' = [loc EXCEPT !.err = err]
    /\ pc' = "swap_restart_on_error"
    /\ UNCHANGED result

\* Swap with the error of RemoveVolume dropped
SwapRemove_ErrorDropped ==
    /\ pc = "swap_remove"
    /\ UNCHANGED <<running, files, storeVars, now, runs, cmd, targets, idx, report, snap, hist>>
    /\ \E ok \in BOOLEAN :
         /\ log' = Append(log, Call("remove", loc.vol, ok))
         /\ volumes' = IF ok THEN RemoveVolume(volumes, loc.vol) ELSE volumes
         /\ pc' = "swap_create"
         /\ UNCHANGED <<loc, result>>

\* Swap: delete the current volume (RemoveVolume with force)
SwapRemove ==
    /\ pc = "swap_remove"
    /\ UNCHANGED <<running, files, storeVars, now, runs, cmd, targets, idx, report, snap, hist>>
    /\ \E ok \in BOOLEAN :
         /\ log' = Append(log, Call("remove", loc.vol, ok))
         /\ IF ok
            THEN /\ volumes' = RemoveVolume(volumes, loc.vol)
                 /\ pc' = "swap_create"
                 /\ UNCHANGED <<loc, result>>
            ELSE /\ SwapFail(Wrap("failed to remove volume", EngineErr("remove")))
                 /\ UNCHANGED volumes

\* Swap: create the new volume under the same name
SwapCreate ==
    /\ pc = "swap_create"
    /\ UNCHANGED <<running, files, storeVars, now, runs, cmd, targets, idx, report, snap, hist>>
    /\ \E ok \in BOOLEAN :
         /\ log' = Append(log, Call("create", loc.vol, ok))
         /\ IF ok
            THEN /\ volumes' = CreateVolume(volumes, loc.vol)
                 /\ pc' = IF cmd.source # NoPath /\ ~cmd.empty THEN "swap_restore"
                          ELSE "swap_restart"
                 /\ UNCHANGED <<loc, result>>
            ELSE /\ SwapFail(Wrap("failed to create volume", EngineErr("create")))
                 /\ UNCHANGED volumes

\* Swap: populate the new volume from the source archive
SwapRestore ==
    /\ pc = "swap_restore"
    /\ UNCHANGED <<running, files, storeVars, now, runs, cmd, targets, idx, report, snap, hist>>
    /\ \E o \in RestoreOutcomes(volumes, loc.vol, cmd.source) :
         /\ log' = Append(log, Call("restore", loc.vol, o.ok))
         /\ volumes' = o.volumes
         /\ IF o.ok
            THEN pc' = "swap_restart" /\ UNCHANGED <<loc, result>>
            ELSE SwapFail(Wrap("restore failed", EngineErr("restore")))

\* Swap: restart the containers when asked to (a failure is a warning) and
\* return nil
SwapRestart ==
    /\ pc = "swap_restart"
    /\ UNCHANGED <<volumes, files, storeVars, now, runs, cmd, targets, idx, loc, report, snap, hist>>
    /\ Return(Nil)
    /\ IF cmd.restart /\ Len(loc.containers) > 0
       THEN \E o \in RestartOutcomes(loc.vol) :
              /\ running' = running \cup o.restarted
              /\ log' = Append(log, Call("restart", loc.vol, o.ok))
       ELSE UNCHANGED <<running, log>>

\* fmt.Errorf("%w (also failed to restart containers: %v)", err, restartErr)
Attach(err, restartErr) == [chain |-> err.chain, also |-> restartErr.chain]

\* restartOnError returning the restart's error in place of the step's
RestartOnErrorResult_Replaced(err, restartOk) ==
    IF restartOk THEN err ELSE EngineErr("restart")

\* The error restartOnError returns after the restart it made
RestartOnErrorResult(err, restartOk) ==
    IF restartOk THEN err ELSE Attach(err, EngineErr("restart"))

\* restartOnError returning the error without the restart
SwapRestartOnError_NoRestart ==
    /\ pc = "swap_restart_on_error"
    /\ UNCHANGED <<volumes, running, log, files, storeVars, now, runs, cmd, targets, idx, loc,
                   report, snap, hist>>
    /\ Return(loc.err)

\* Swap's restartOnError closure: when containers were stopped, restart
\* them, then return the step's error
SwapRestartOnError ==
    /\ pc = "swap_restart_on_error"
    /\ UNCHANGED <<volumes, files, storeVars, now, runs, cmd, targets, idx, loc, report, snap, hist>>
    /\ IF loc.stopped /\ Len(loc.containers) > 0
       THEN \E o \in RestartOutcomes(loc.vol) :
              /\ running' = running \cup o.restarted
              /\ log' = Append(log, Call("compensate", loc.vol, o.ok))
              /\ Return(RestartOnErrorResult(loc.err, o.ok))
       ELSE /\ Return(loc.err)
            /\ UNCHANGED <<running, log>>

SwapNext ==
    \/ \E c \in SwapCommands : Invoke(c)
    \/ SwapResolve
    \/ SwapBackup
    \/ SwapStop
    \/ SwapRemove
    \/ SwapCreate
    \/ SwapRestore
    \/ SwapRestart
    \/ SwapRestartOnError

\* --------------------------------------------------- in-use detection
\* docker.Client.IsVolumeInUse: ContainerList with All (stopped containers
\* count); [ok, inUse], inUse false when the list fails.
InUseOutcomes(v) ==
    {[ok |-> TRUE, inUse |-> Len(ContainersUsing(v)) > 0], [ok |-> FALSE, inUse |-> FALSE]}

\* --------------------------------------------------------------- Restore
\* strings.TrimPrefix(volumeName, project + "_")
TrimPrefix(v, project) ==
    IF IsPrefix(project, v) /\ Len(v) > Len(project)
    THEN SubSeq(v, Len(project) + 1, Len(v)) ELSE v

\* filepath.Glob(dir/name_*.ext) over the candidate names
Matches(dir, names, ext) ==
    {p \in DOMAIN files :
        /\ p.dir = dir /\ p.ext = ext
        /\ \E n \in names : IsPrefix(n, p.name) /\ Len(p.name) > Len(n)}

\* commands.ListBackupFiles for the candidate names
ListBackupFiles(dir, names) == Matches(dir, names, "tar.gz") \cup Matches(dir, names, "tar.zst")

\* commands.FindBackupFile for the candidate names: the tar.gz matches, the
\* tar.zst ones when there is none, and of these the ones of the newest
\* modification time ({} stands for ErrBackupNotFound).
FindBackupFile(dir, names) ==
    LET gz == Matches(dir, names, "tar.gz")
        matches == IF gz # {} THEN gz ELSE Matches(dir, names, "tar.zst")
    IN {p \in matches : \A q \in matches : files[q].mtime <= files[p].mtime}

\* The target of "dvm restore": nothing, a word, or the path of a file
NoTarget == [name |-> NoName, path |-> NoPath]
NameTarget(n) == [name |-> n, path |-> NoPath]
PathTarget(p) == [name |-> <<"path">> \o p.name, path |-> p]

\* RestoreOptions and the loaded context of one "dvm restore" command line
RestoreCommands ==
    {[name |-> "restore", target |-> NoTarget, select |-> FALSE, list |-> FALSE,
      force |-> f, restart |-> r, compose |-> TRUE] : f \in BOOLEAN, r \in BOOLEAN}
    \cup
    {[name |-> "restore", target |-> t, select |-> FALSE, list |-> FALSE,
      force |-> f, restart |-> FALSE, compose |-> co] :
        t \in {NoTarget, NameTarget(Web), NameTarget(Db), NameTarget(PData), NameTarget(Ghost),
               PathTarget(OldArchive), PathTarget(MissingArchive)},
        f \in BOOLEAN, co \in BOOLEAN}
    \cup
    {[name |-> "restore", target |-> NameTarget(n), select |-> s, list |-> ~s,
      force |-> FALSE, restart |-> FALSE, compose |-> TRUE] :
        n \in {Web, Db}, s \in BOOLEAN}

\* restoreService or restoreFromFile returned err: to Restore's caller for
\* a single target, to the loop of restoreAll otherwise
RestoreItemDone(err) ==
    IF idx = 0
    THEN Return(err) /\ UNCHANGED <<idx, loc, report>>
    ELSE ItemDone(err, "restore_loop") /\ UNCHANGED result

\* Restore: the dispatch on the target, and restoreAll up to its loop
Restore ==
    /\ pc = "start"
    /\ cmd.name = "restore"
    /\ UNCHANGED <<worldVars, now, runs, cmd, log, report, snap, hist>>
    /\ IF cmd.target = NoTarget
       THEN IF ~cmd.compose
            THEN Return(ErrComposeNotFound) /\ UNCHANGED <<targets, idx, loc>>
            ELSE \E order \in Perms(ServiceNames) :
                   LET vs == GetAllFullVolumeNames(order, Project)
                   IN IF vs = << >>
                      THEN Return(Nil) /\ UNCHANGED <<targets, idx, loc>>
                      ELSE /\ targets' = vs
                           /\ idx' = 1
                           /\ pc' = "restore_loop"
                           /\ UNCHANGED <<loc, result>>
       ELSE IF cmd.target.path \in DOMAIN files
       THEN /\ loc' = [NoLoc EXCEPT !.path = cmd.target.path]
            /\ pc' = "rf_name"
            /\ UNCHANGED <<targets, idx, result>>
       ELSE /\ loc' = [NoLoc EXCEPT !.svc = cmd.target.name]
            /\ pc' = "rs_find"
            /\ UNCHANGED <<targets, idx, result>>

\* The loop of restoreAll: an error of restoreService is printed and the
\* loop goes on; restoreAll returns nil.
RestoreAllLoop ==
    /\ pc = "restore_loop"
    /\ UNCHANGED <<worldVars, now, runs, cmd, targets, idx, log, report, snap, hist>>
    /\ IF idx > Len(targets)
       THEN Return(Nil) /\ UNCHANGED loc
       ELSE \E serviceName \in GetServiceNames(targets[idx]) :
              /\ loc' = [NoLoc EXCEPT !.svc = serviceName]
              /\ pc' = "rs_find"
              /\ UNCHANGED result

\* restoreService: the volume, the candidate names, the archive to restore
RestoreService ==
    /\ pc = "rs_find"
    /\ UNCHANGED <<worldVars, now, runs, cmd, targets, log, snap, hist>>
    /\ LET serviceName == loc.svc
           resolved == ResolveVolumeName(serviceName)
           volumeName == IF resolved = NoName THEN serviceName ELSE resolved
           shortName == IF Project # NoName THEN TrimPrefix(volumeName, Project) ELSE NoName
           backupDir == BackupsDir(Project)
           found(file) == /\ loc' = [loc EXCEPT !.vol = volumeName, !.path = file]
                          /\ pc' = "rf_confirm"
                          /\ UNCHANGED <<idx, report, result>>
       IN \E got \in GetServiceNames(volumeName) :
            LET svcName == IF got = NoName THEN serviceName ELSE got
                searchNames == {serviceName, svcName, volumeName, shortName} \ {NoName}
            IN IF cmd.list
               THEN RestoreItemDone(Nil)
               ELSE IF cmd.select
               THEN IF ListBackupFiles(backupDir, searchNames) = {}
                    THEN RestoreItemDone(Err("no backups found"))
                    ELSE \/ RestoreItemDone(Err("invalid selection"))
                         \/ \E file \in ListBackupFiles(backupDir, searchNames) : found(file)
               ELSE IF FindBackupFile(backupDir, searchNames) = {}
                    THEN RestoreItemDone(Wrap("no backup found", ErrBackupNotFound))
                    ELSE \E file \in FindBackupFile(backupDir, searchNames) : found(file)

\* c.ProjectName + "_" + serviceName
ProjectPrefixed(project, name) ==
    IF project = NoName THEN <<"">> \o name ELSE project \o name

\* restoreFromFile without a volume name: the name is read from the file
\* name (all "_"-separated parts but the last two), resolved, and prefixed
\* with the project when it does not resolve
RestoreFromFileName ==
    /\ pc = "rf_name"
    /\ UNCHANGED <<worldVars, now, runs, cmd, targets, log, snap, hist>>
    /\ LET parts == loc.path.name
       IN IF Len(parts) < 3
          THEN RestoreItemDone(Err("backup filename does not match expected format"))
          ELSE LET serviceName == SubSeq(parts, 1, Len(parts) - 2)
                   resolved == ResolveVolumeName(serviceName)
                   volumeName == IF resolved = NoName
                                 THEN ProjectPrefixed(Project, serviceName) ELSE resolved
               IN /\ loc' = [loc EXCEPT !.vol = volumeName]
                  /\ pc' = "rf_confirm"
                  /\ UNCHANGED <<idx, report, result>>

\* restoreFromFile asking only about a volume in use
PromptsShown_InUseOnly(exists, inUse, force) ==
    IF exists /\ inUse /\ ~force THEN <<"confirm-in-use">> ELSE << >>

\* restoreFromFile: the prompts it shows before it restores
PromptsShown(exists, inUse, force) ==
    IF ~exists THEN << >>
    ELSE (IF inUse /\ ~force THEN <<"confirm-in-use">> ELSE << >>)
            \o (IF ~force THEN <<"confirm-overwrite">> ELSE << >>)

\* restoreFromFile: existence check, in-use detection (its error dropped)
\* and the prompts; the first n are confirmed, the next one, if any, is
\* declined
RestoreConfirm ==
    /\ pc = "rf_confirm"
    /\ UNCHANGED <<worldVars, now, runs, cmd, targets, snap, hist>>
    /\ \E u \in InUseOutcomes(loc.vol) :
         LET prompts == PromptsShown(VolumeExists(loc.vol), u.inUse, cmd.force)
         IN \E n \in 0..Len(prompts) :
              /\ log' = log \o [i \in 1..Min(n + 1, Len(prompts)) |->
                                   Call(prompts[i], loc.vol, i <= n)]
              /\ IF n < Len(prompts)
                 THEN RestoreItemDone(Err("restore cancelled"))
                 ELSE /\ pc' = "rf_run"
                      /\ UNCHANGED <<idx, loc, report, result>>

\* restoreFromFile: the data-mover run, the last-accessed metadata (a
\* failure is a warning), the restart when asked for (a failure is a warning)
RestoreRun ==
    /\ pc = "rf_run"
    /\ UNCHANGED <<files, ledger, nextId, runs, cmd, targets, snap, hist>>
    /\ \E o \in RestoreOutcomes(volumes, loc.vol, loc.path), metaOk \in BOOLEAN, dt \in {0, 1} :
         /\ volumes' = o.volumes
         /\ IF ~o.ok
            THEN /\ metaOk /\ dt = 0
                 /\ log' = Append(log, Call("restore", loc.vol, FALSE))
                 /\ RestoreItemDone(Wrap("restore failed", EngineErr("restore")))
                 /\ UNCHANGED <<running, meta, now>>
            ELSE /\ now' = Advance(now, dt)
                 /\ meta' = IF metaOk THEN UpdateLastAccessed(meta, loc.vol, now') ELSE meta
                 /\ RestoreItemDone(Nil)
                 /\ IF cmd.restart
                    THEN \E r \in RestartOutcomes(loc.vol) :
                           /\ running' = running \cup r.restarted
                           /\ log' = log \o <<Call("restore", loc.vol, TRUE),
                                              Call("restart", loc.vol, r.ok)>>
                    ELSE /\ log' = Append(log, Call("restore", loc.vol, TRUE))
                         /\ UNCHANGED running

RestoreNext ==
    \/ \E c \in RestoreCommands : Invoke(c)
    \/ Restore
    \/ RestoreAllLoop
    \/ RestoreService
    \/ RestoreFromFileName
    \/ RestoreConfirm
    \/ RestoreRun

\* --------------------------------------------------------------- Archive
\* ArchiveOptions, the global --quiet and the loaded context of one
\* "dvm archive" command line
ArchiveCommands ==
    {[name |-> "archive", services |-> s.services, force |-> f, verify |-> vf, quiet |-> q,
      compose |-> s.compose] :
        s \in {[services |-> << >>, compose |-> TRUE],
               [services |-> << >>, compose |-> FALSE],
               [services |-> <<Web, Worker>>, compose |-> TRUE],
               [services |-> <<Ghost, Db>>, compose |-> TRUE],
               [services |-> <<PData>>, compose |-> FALSE]},
        f \in BOOLEAN, vf \in BOOLEAN, q \in BOOLEAN}

\* Archive, up to the loop: the target list, the output directory and the
\* confirmation
Archive ==
    /\ pc = "start"
    /\ cmd.name = "archive"
    /\ UNCHANGED <<worldVars, now, runs, cmd, loc, report, snap, hist>>
    /\ IF cmd.services = << >> /\ ~cmd.compose
       THEN Return(ErrComposeNotFound) /\ UNCHANGED <<targets, idx, log>>
       ELSE \E order \in Perms(ServiceNames), dirOk \in BOOLEAN, yes \in BOOLEAN :
              LET ts == IF cmd.services = << >>
                        THEN GetAllFullVolumeNames(order, Project)
                        ELSE ResolveAll(cmd.services)
              IN IF ts = << >>
                 THEN /\ dirOk /\ yes
                      /\ Return(Nil) /\ UNCHANGED <<targets, idx, log>>
                 ELSE IF ~dirOk
                 THEN /\ yes
                      /\ Return(Wrap("failed to create archive directory", Err("fs: mkdir")))
                      /\ UNCHANGED <<targets, idx, log>>
                 ELSE IF ~cmd.force /\ ~yes
                 THEN /\ log' = Append(log, Call("confirm", NoName, FALSE))
                      /\ Return(Err("archive cancelled"))
                      /\ UNCHANGED <<targets, idx>>
                 ELSE /\ log' = IF cmd.force THEN log
                                ELSE Append(log, Call("confirm", NoName, TRUE))
                      /\ (cmd.force => yes)
                      /\ targets' = ts
                      /\ idx' = 1
                      /\ pc' = "archive_loop"
                      /\ UNCHANGED result

\* The loop of Archive: an error of archiveVolume is printed and the loop
\* goes on; Archive returns nil.
ArchiveLoop ==
    /\ pc = "archive_loop"
    /\ UNCHANGED <<worldVars, now, runs, cmd, targets, idx, log, report, snap, hist>>
    /\ IF idx > Len(targets)
       THEN Return(Nil) /\ UNCHANGED loc
       ELSE /\ pc' = "av_check"
            /\ loc' = [NoLoc EXCEPT !.vol = targets[idx]]
            /\ UNCHANGED result

\* archiveVolume going on whatever the detection reports
InUseRefused_Never(inUse, force) == FALSE

\* archiveVolume: a volume reported in use is refused unless forced
InUseRefused(inUse, force) == inUse /\ ~force

\* archiveVolume: existence check, in-use detection (its error dropped),
\* refusal or warning, the name the archive is filed under
ArchiveVolumeCheck ==
    /\ pc = "av_check"
    /\ UNCHANGED <<worldVars, now, runs, cmd, targets, result, snap, hist>>
    /\ IF ~VolumeExists(loc.vol)
       THEN ItemDone(ErrVolumeNotFound, "archive_loop") /\ UNCHANGED log
       ELSE \E u \in InUseOutcomes(loc.vol), got \in GetServiceNames(loc.vol) :
              LET detected == Append(log, Call("in-use", loc.vol, u.inUse))
              IN IF InUseRefused(u.inUse, cmd.force)
                 THEN /\ log' = detected
                      /\ ItemDone(Err("volume is in use"), "archive_loop")
                 ELSE /\ log' = IF u.inUse /\ cmd.force /\ ~cmd.quiet
                                THEN Append(detected, Call("warn-in-use", loc.vol, TRUE))
                                ELSE detected
                      /\ loc' = [loc EXCEPT !.svc = IF got = NoName THEN loc.vol ELSE got]
                      /\ pc' = "av_run"
                      /\ UNCHANGED <<idx, report>>

\* archiveVolume: the data-mover run into the archive directory, the
\* checksum (an error only with --verify), the ledger row (a failure is
\* a warning)
ArchiveVolumeRun ==
    /\ pc = "av_run"
    /\ UNCHANGED <<engineVars, meta, runs, cmd, targets, result, snap, hist>>
    /\ LET outputDir == ArchivesDir(Project)
           filename == GenerateBackupFilename(loc.svc, DefaultFormat, now)
           archivePath == JoinPath(outputDir, filename)
       IN \E ok \in BOOLEAN, dt \in {0, 1}, sumOk \in BOOLEAN, addOk \in BOOLEAN :
            /\ log' = Append(log, Call("backup", loc.vol, ok))
            /\ now' = Advance(now, dt)
            /\ IF ~ok
               THEN /\ dt = 0 /\ sumOk /\ addOk
                    /\ ItemDone(Wrap("archive backup failed", EngineErr("backup")), "archive_loop")
                    /\ UNCHANGED <<files, ledger, nextId>>
               ELSE /\ files' = WriteFile(files, archivePath, volumes[loc.vol], now')
                    /\ IF cmd.verify /\ ~sumOk
                       THEN /\ addOk
                            /\ ItemDone(Wrap("checksum calculation failed", Err("fs: read")),
                                        "archive_loop")
                            /\ UNCHANGED <<ledger, nextId>>
                       ELSE /\ (~cmd.verify => sumOk)
                            /\ IF addOk
                               THEN /\ ledger' = ledger \cup
                                         {[NewRecord(loc.vol, loc.svc, Project, archivePath, "archive")
                                             EXCEPT !.createdAt = now']}
                                    /\ nextId' = nextId + 1
                               ELSE UNCHANGED <<ledger, nextId>>
                            /\ loc' = [loc EXCEPT !.path = archivePath]
                            /\ pc' = "av_remove"
                            /\ UNCHANGED <<idx, report>>

\* archiveVolume deleting the rows of the volume with the volume
ArchiveVolumeRemove_DropsRecords ==
    /\ pc = "av_remove"
    /\ UNCHANGED <<running, files, nextId, meta, now, runs, cmd, targets, result, snap, hist>>
    /\ \E ok \in BOOLEAN :
         /\ log' = Append(log, Call("remove", loc.vol, ok))
         /\ IF ok
            THEN /\ volumes' = RemoveVolume(volumes, loc.vol)
                 /\ ledger' = ledger \ RecordsOf(loc.vol)
                 /\ ItemDone(Nil, "archive_loop")
            ELSE /\ ItemDone(Wrap("failed to delete volume", EngineErr("remove")), "archive_loop")
                 /\ UNCHANGED <<volumes, ledger>>

\* archiveVolume: delete the volume (RemoveVolume without force)
ArchiveVolumeRemove ==
    /\ pc = "av_remove"
    /\ UNCHANGED <<running, files, storeVars, now, runs, cmd, targets, result, snap, hist>>
    /\ \E ok \in BOOLEAN :
         /\ log' = Append(log, Call("remove", loc.vol, ok))
         /\ IF ok
            THEN /\ volumes' = RemoveVolume(volumes, loc.vol)
                 /\ ItemDone(Nil, "archive_loop")
            ELSE /\ ItemDone(Wrap("failed to delete volume", EngineErr("remove")), "archive_loop")
                 /\ UNCHANGED volumes

ArchiveNext ==
    \/ \E c \in ArchiveCommands : Invoke(c)
    \/ Archive
    \/ ArchiveLoop
    \/ ArchiveVolumeCheck
    \/ ArchiveVolumeRun
    \/ ArchiveVolumeRemove

\* ----------------------------------------------------------------- Clean
StaleChoices == {0, 1, 5}

\* CleanOptions and the loaded context of one "dvm clean" command line
CleanCommands ==
    {[name |-> "clean", unused |-> u, stale |-> s, dryRun |-> d, archive |-> a, force |-> f,
      compose |-> TRUE] :
        u \in BOOLEAN, s \in StaleChoices, d \in BOOLEAN, a \in BOOLEAN, f \in BOOLEAN}
    \cup
    {[name |-> "clean", unused |-> TRUE, stale |-> 0, dryRun |-> FALSE, archive |-> TRUE,
      force |-> TRUE, compose |-> FALSE]}

\* Clean: int(meta.LastAccessed.Sub(meta.LastAccessed).Hours() / 24)
DaysSince(lastAccessed) == (lastAccessed - lastAccessed) \div SecondsPerDay

\* Clean: the staleness test of a volume whose metadata row is m (<< >>
\* for no row or a failed lookup)
IsStale(m, stale) ==
    /\ stale > 0
    /\ m # << >>
    /\ m[1].lastAccessed # << >>
    /\ DaysSince(m[1].lastAccessed[1]) >= stale

\* database.GetVolumeMetadata: the row, or nothing
GetVolumeMetadata(v, ok) == IF ok /\ v \in DOMAIN meta THEN <<meta[v]>> ELSE << >>

\* Clean: the filter loop over the listed volumes; inUseFailed and
\* metaFailed are the volumes whose detection or lookup failed
RECURSIVE VolumesToClean(_, _, _)
VolumesToClean(listed, inUseFailed, metaFailed) ==
    IF listed = << >> THEN << >>
    ELSE LET v == Head(listed)
             inUse == v \notin inUseFailed /\ Len(ContainersUsing(v)) > 0
             m == GetVolumeMetadata(v, v \notin metaFailed)
             shouldClean == (cmd.unused /\ ~inUse) \/ IsStale(m, cmd.stale)
         IN (IF shouldClean THEN <<v>> ELSE << >>)
                \o VolumesToClean(Tail(listed), inUseFailed, metaFailed)

\* The detection and lookup failures of the filter loop, as log entries
RECURSIVE FailureCalls(_, _, _)
FailureCalls(listed, inUseFailed, metaFailed) ==
    IF listed = << >> THEN << >>
    ELSE LET v == Head(listed)
         IN (IF v \in inUseFailed THEN <<Call("in-use-error", v, FALSE)>> ELSE << >>)
              \o (IF v \in metaFailed THEN <<Call("metadata-error", v, FALSE)>> ELSE << >>)
              \o FailureCalls(Tail(listed), inUseFailed, metaFailed)

\* Clean ignoring --dry-run
DryRunReturns_Never(dryRun) == FALSE

\* Clean: with --dry-run, return after the candidates are printed
DryRunReturns(dryRun) == dryRun

\* Clean, up to the loop: list, filter, dry-run return, confirmation,
\* archive directory
Clean ==
    /\ pc = "start"
    /\ cmd.name = "clean"
    /\ UNCHANGED <<worldVars, now, runs, cmd, loc, report, snap, hist>>
    /\ \/ /\ Return(EngineErr("list"))
          /\ UNCHANGED <<targets, idx, log>>
       \/ \E listed \in Perms(DOMAIN volumes),
             inUseFailed \in SUBSET (IF cmd.unused THEN DOMAIN volumes ELSE {}),
             metaFailed \in SUBSET (IF cmd.stale > 0 THEN DOMAIN volumes ELSE {}),
             yes \in BOOLEAN, dirOk \in BOOLEAN :
            LET volumesToClean == VolumesToClean(listed, inUseFailed, metaFailed)
                failures == FailureCalls(listed, inUseFailed, metaFailed)
                asked == ~cmd.force
                stopped == volumesToClean = << >> \/ DryRunReturns(cmd.dryRun)
            IN /\ (stopped \/ ~asked => yes)
               /\ (stopped \/ (asked /\ ~yes) \/ ~cmd.archive => dirOk)
               /\ IF stopped
                  THEN /\ log' = log \o failures
                       /\ Return(Nil)
                       /\ UNCHANGED <<targets, idx>>
                  ELSE IF asked /\ ~yes
                  THEN /\ log' = log \o failures \o <<Call("confirm", NoName, FALSE)>>
                       /\ Return(Err("cleanup cancelled"))
                       /\ UNCHANGED <<targets, idx>>
                  ELSE /\ log' = log \o failures \o
                                   (IF asked THEN <<Call("confirm", NoName, TRUE)>> ELSE << >>)
                       /\ IF ~dirOk
                          THEN /\ Return(Wrap("failed to create archive directory",
                                              Err("fs: mkdir")))
                               /\ UNCHANGED <<targets, idx>>
                          ELSE /\ targets' = volumesToClean
                               /\ idx' = 1
                               /\ pc' = "clean_loop"
                               /\ UNCHANGED result

\* The loop of Clean with cleanVolume never given an archive directory
CleanLoop_NoArchive ==
    /\ pc = "clean_loop"
    /\ UNCHANGED <<worldVars, now, runs, cmd, targets, idx, log, report, snap, hist>>
    /\ IF idx > Len(targets)
       THEN Return(Nil) /\ UNCHANGED loc
       ELSE /\ pc' = "cv_remove"
            /\ loc' = [NoLoc EXCEPT !.vol = targets[idx]]
            /\ UNCHANGED result

\* The loop of Clean: an error of cleanVolume is printed and the loop goes
\* on; Clean returns nil.
CleanLoop ==
    /\ pc = "clean_loop"
    /\ UNCHANGED <<worldVars, now, runs, cmd, targets, idx, log, report, snap, hist>>
    /\ IF idx > Len(targets)
       THEN Return(Nil) /\ UNCHANGED loc
       ELSE /\ pc' = IF cmd.archive THEN "cv_archive" ELSE "cv_remove"
            /\ loc' = [NoLoc EXCEPT !.vol = targets[idx]]
            /\ UNCHANGED result

\* cleanVolume inserting the ledger row whatever the data-mover returned
CleanVolumeArchive_RecordAlways ==
    /\ pc = "cv_archive"
    /\ UNCHANGED <<engineVars, meta, runs, cmd, targets, result, snap, hist>>
    /\ \E got \in GetServiceNames(loc.vol), ok \in BOOLEAN, dt \in {0, 1} :
         LET serviceName == IF got = NoName THEN loc.vol ELSE got
             filename == GenerateBackupFilename(serviceName, DefaultFormat, now)
             archivePath == JoinPath(CleanupDir, filename)
         IN /\ log' = Append(log, Call("backup", loc.vol, ok))
            /\ now' = Advance(now, dt)
            /\ ledger' = ledger \cup
                   {[NewRecord(loc.vol, serviceName, Project, archivePath,
                               "cleanup-archive") EXCEPT !.createdAt = now']}
            /\ nextId' = nextId + 1
            /\ IF ~ok
               THEN /\ dt = 0
                    /\ ItemDone(Wrap("archive failed", EngineErr("backup")), "clean_loop")
                    /\ UNCHANGED files
               ELSE /\ files' = WriteFile(files, archivePath, volumes[loc.vol], now')
                    /\ loc' = [loc EXCEPT !.svc = serviceName, !.path = archivePath]
                    /\ pc' = "cv_remove"
                    /\ UNCHANGED <<idx, report>>

\* cleanVolume with an archive directory: the data-mover run and the
\* ledger row (its error ignored)
CleanVolumeArchive ==
    /\ pc = "cv_archive"
    /\ UNCHANGED <<engineVars, meta, runs, cmd, targets, result, snap, hist>>
    /\ \E got \in GetServiceNames(loc.vol), ok \in BOOLEAN, dt \in {0, 1}, addOk \in BOOLEAN :
         LET serviceName == IF got = NoName THEN loc.vol ELSE got
             filename == GenerateBackupFilename(serviceName, DefaultFormat, now)
             archivePath == JoinPath(CleanupDir, filename)
         IN /\ log' = Append(log, Call("backup", loc.vol, ok))
            /\ now' = Advance(now, dt)
            /\ IF ~ok
               THEN /\ dt = 0 /\ addOk
                    /\ ItemDone(Wrap("archive failed", EngineErr("backup")), "clean_loop")
                    /\ UNCHANGED <<files, ledger, nextId>>
               ELSE /\ files' = WriteFile(files, archivePath, volumes[loc.vol], now')
                    /\ IF addOk
                       THEN /\ ledger' = ledger \cup
                                 {[NewRecord(loc.vol, serviceName, Project, archivePath,
                                             "cleanup-archive") EXCEPT !.createdAt = now']}
                            /\ nextId' = nextId + 1
                       ELSE UNCHANGED <<ledger, nextId>>
                    /\ loc' = [loc EXCEPT !.svc = serviceName, !.path = archivePath]
                    /\ pc' = "cv_remove"
                    /\ UNCHANGED <<idx, report>>

\* cleanVolume: delete the volume (RemoveVolume without force)
CleanVolumeRemove ==
    /\ pc = "cv_remove"
    /\ UNCHANGED <<running, files, storeVars, now, runs, cmd, targets, result, snap, hist>>
    /\ \E ok \in BOOLEAN :
         /\ log' = Append(log, Call("remove", loc.vol, ok))
         /\ IF ok
            THEN /\ volumes' = RemoveVolume(volumes, loc.vol)
                 /\ ItemDone(Nil, "clean_loop")
            ELSE /\ ItemDone(Wrap("failed to delete", EngineErr("remove")), "clean_loop")
                 /\ UNCHANGED volumes

CleanNext ==
    \/ \E c \in CleanCommands : Invoke(c)
    \/ Clean
    \/ CleanLoop
    \/ CleanVolumeArchive
    \/ CleanVolumeRemove

\* ----------------------------------------------------------------- Init
NoFiles == [p \in {} |-> 0]
NoMeta == [v \in {} |-> 0]

InitRun ==
    /\ now = 0
    /\ runs = 0
    /\ cmd = [name |-> "none", compose |-> TRUE]
    /\ pc = "idle"
    /\ targets = << >>
    /\ idx = 0
    /\ loc = NoLoc
    /\ result = Nil
    /\ log = << >>
    /\ report = << >>
    /\ snap = World
    /\ hist = [v \in AllVolumes |-> NoHistory]

\* A fresh installation: volumes of the project exist with live data, the
\* containers run, the store and the backup directories are empty.
InitFresh ==
    /\ \E vs \in {AllVolumes, {PData}} : volumes = [v \in vs |-> LiveData(v)]
    /\ running = Containers
    /\ files = NoFiles
    /\ ledger = {}
    /\ nextId = 1
    /\ meta = NoMeta
    /\ InitRun

\* An installation in use: one backup of the shared volume was taken at
\* second 0 (file, ledger row, metadata row) and the volumes have been
\* written since; the shared volume was last accessed three days ago, the
\* volume of db just now; either volume may have been removed.
InitUsed ==
    /\ \E vs \in {AllVolumes, {PData}, {PDbData}} : volumes = [v \in vs |-> LiveData(v)]
    /\ running = Containers
    /\ files = WriteFile(NoFiles, OldArchive, OldData(PData), 0)
    /\ ledger = {[id |-> 1, volumeName |-> PData, serviceName |-> Web, projectName |-> ProjectName,
                  filePath |-> OldArchive, createdAt |-> 0, tag |-> ""]}
    /\ nextId = 2
    /\ meta = UpdateLastAccessed(
                  UpdateLastAccessed(UpdateLastBackup(NoMeta, PData, 0), PData, 0 - 3 * SecondsPerDay),
                  PDbData, 0)
    /\ InitRun

SpecBackup == InitFresh /\ [][BackupNext]_vars

SpecSwap == InitUsed /\ [][SwapNext]_vars

SpecRestore == InitUsed /\ [][RestoreNext]_vars

SpecArchive == InitUsed /\ [][ArchiveNext]_vars

SpecClean == InitUsed /\ [][CleanNext]_vars

Init == InitFresh \/ InitUsed

Next ==
    \/ BackupNext
    \/ SwapNext
    \/ RestoreNext
    \/ ArchiveNext
    \/ CleanNext

Spec == Init /\ [][Next]_vars

\* The command lines with a target list, one or two shapes per workflow
MultiCommands ==
    {c \in BackupCommands : c.compose /\ c.keepProject = 1 /\ c.services \in {<< >>, <<Web, Worker>>}}
        \cup {c \in ArchiveCommands : c.compose /\ c.verify /\ ~c.quiet /\ c.services = << >>}
        \cup {c \in CleanCommands : c.compose /\ c.unused /\ c.stale = 0 /\ ~c.dryRun /\ c.force}
        \cup {c \in RestoreCommands : c.compose /\ c.target = NoTarget /\ ~c.restart}

MultiNext ==
    \/ \E c \in MultiCommands : Invoke(c)
    \/ BackupTargets
    \/ BackupLoop
    \/ BackupVolumeCheck
    \/ BackupVolumeRun
    \/ BackupVolumeRecord
    \/ BackupVolumeCleanup
    \/ Restore
    \/ RestoreAllLoop
    \/ RestoreService
    \/ RestoreConfirm
    \/ RestoreRun
    \/ Archive
    \/ ArchiveLoop
    \/ ArchiveVolumeCheck
    \/ ArchiveVolumeRun
    \/ ArchiveVolumeRemove
    \/ Clean
    \/ CleanLoop
    \/ CleanVolumeArchive
    \/ CleanVolumeRemove

SpecMulti == InitUsed /\ [][MultiNext]_vars

\* ================================================================ claims
BackupCalls(v) == {i \in 1..Len(log) : log[i].op = "backup" /\ log[i].vol = v}
OkBackupCalls(v) == {i \in BackupCalls(v) : log[i].ok}
RecordCalls(v) == {i \in 1..Len(log) : log[i].op = "record" /\ log[i].vol = v}
NewRecordsOf(v) == {r \in ledger \ snap.ledger : r.volumeName = v}
ProjectVolumes == {ProjectName \o ServiceVolumes(s)[i] : s \in ServiceNames, i \in {1}}

\* C1 (as claimed): for a volume v and a keep count N > 0, after N+1
\* backupVolume runs of v that succeeded in every step (on a ledger no
\* other workflow wrote), exactly N rows of v and exactly N archive files
\* remain: those of the N newest backups; the oldest row and file are the
\* one row and the one file removed.
C1_RetentionRemovesOldest ==
    \A v \in AllVolumes :
        LET h == hist[v]
            n == h.keep
            kept == {h.made[i] : i \in 2..Len(h.made)}
            all == {h.made[i] : i \in 1..Len(h.made)}
        IN (~h.dirty /\ n > 0 /\ Len(h.made) = n + 1 /\ loc.vol # v) =>
              /\ Cardinality(RecordsOf(v)) = n
              /\ {r.id : r \in RecordsOf(v)} = {m.id : m \in kept}
              /\ {m.path : m \in all} \cap DOMAIN files = {m.path : m \in kept}
              /\ Cardinality({m.path : m \in all} \cap DOMAIN files) = n

\* C5: a Backup with no explicit targets has every physical volume of the
\* project in its target list exactly once, runs the data-mover at most
\* once per volume and inserts at most one ledger row per volume; when it
\* ends with every target backed up, it has written exactly one archive and
\* inserted exactly one row for each volume.
C5_BackupAllOncePerVolume ==
    (cmd.name = "backup" /\ cmd.services = << >> /\ idx >= 1) =>
        /\ \A i, j \in 1..Len(targets) : targets[i] = targets[j] => i = j
        /\ Range(targets) = ProjectVolumes
        /\ \A v \in AllVolumes :
             /\ Cardinality(BackupCalls(v)) <= 1
             /\ Cardinality(NewRecordsOf(v)) <= 1
             /\ Cardinality(RecordCalls(v)) <= 1
             /\ (pc = "idle" /\ \A i \in 1..Len(report) : report[i].err = Nil) =>
                   /\ Cardinality(OkBackupCalls(v)) = 1
                   /\ Cardinality({i \in RecordCalls(v) : log[i].ok}) = 1

\* C5 witness: a backup of the whole project ended with both volumes
\* backed up, the volume shared by two services among them.
C5_Witness ==
    /\ cmd.name = "backup" /\ cmd.services = << >> /\ pc = "idle"
    /\ Len(report) = 2
    /\ \A i \in 1..2 : report[i].err = Nil
    /\ Cardinality(ServicesOfVolume(PData, ProjectName)) = 2
    /\ Cardinality(NewRecordsOf(PData)) = 1

HasCall(op) == \E i \in 1..Len(log) : log[i].op = op
HasOkCall(op) == \E i \in 1..Len(log) : log[i].op = op /\ log[i].ok
SwapReturned == cmd.name = "swap" /\ pc = "idle" /\ loc.vol # NoName

\* The error of a failed step of Swap, as Swap words it
StepError(op) ==
    IF op = "remove" THEN Wrap("failed to remove volume", EngineErr("remove"))
    ELSE IF op = "create" THEN Wrap("failed to create volume", EngineErr("create"))
    ELSE Wrap("restore failed", EngineErr("restore"))

LateStepFailed ==
    \E i \in 1..Len(log) : log[i].op \in {"remove", "create", "restore"} /\ ~log[i].ok

\* C2: when Swap has stopped the containers and then the removal, the
\* creation or the restore fails, the last thing Swap does before it
\* returns is the restart of those containers (all of them run again when
\* that restart reports success), and the error returned has the failed
\* step's error as its primary error.
C2_SwapRestartsBeforeError ==
    (SwapReturned /\ loc.stopped /\ LateStepFailed) =>
        /\ Len(log) >= 2
        /\ log[Len(log)].op = "compensate"
        /\ log[Len(log) - 1].op \in {"remove", "create", "restore"}
        /\ ~log[Len(log) - 1].ok
        /\ result.chain = StepError(log[Len(log) - 1].op).chain
        /\ (log[Len(log)].ok => Range(loc.containers) \subseteq running)

\* C2 witness: the creation failed after the containers were stopped and
\* the volume removed, and Swap returned after the restart.
C2_Witness ==
    /\ SwapReturned /\ loc.stopped
    /\ \E i \in 1..Len(log) : log[i].op = "create" /\ ~log[i].ok
    /\ HasOkCall("compensate")
    /\ Range(loc.containers) = Containers
    /\ result.chain[1] = "failed to create volume"

\* C3: when the compensating restart fails, the error Swap returns keeps
\* the failed step's error as primary and carries the restart's error
\* attached; when the restart succeeds, Swap returns the step's error as
\* it was.
C3_RestartFailureAttached ==
    (SwapReturned /\ HasCall("compensate")) =>
        LET step == StepError(log[Len(log) - 1].op)
        IN /\ result.chain = step.chain
           /\ loc.err = step
           /\ (log[Len(log)].ok => result = step)
           /\ (~log[Len(log)].ok => result.also = EngineErr("restart").chain)

\* C3 witness: the removal failed and so did the compensating restart.
C3_Witness ==
    /\ SwapReturned /\ HasCall("compensate") /\ ~HasOkCall("compensate")
    /\ result.chain[1] = "failed to remove volume"
    /\ result.also # << >>

Rank(op) ==
    CASE op = "backup" -> 1 [] op = "stop" -> 2 [] op = "remove" -> 3 [] op = "create" -> 4
      [] op = "restore" -> 5 [] op = "restart" -> 6 [] OTHER -> 7

ConfirmOps == {"confirm-in-use", "confirm-overwrite"}
Cancelled == Err("restore cancelled")

\* C6: Restore runs the data-mover into a volume that already exists only
\* with --force or after the overwrite prompt, and every other prompt shown
\* for the volume, was confirmed; when a prompt is declined, the restore of
\* that volume ends with the error "restore cancelled" without a data-mover
\* run or a restart, and the volume's contents and metadata row are as they
\* were (for a single target: Restore returns that error and the engine,
\* the files and the store are as they were).
C6_RestoreNeedsConfirmation ==
    cmd.name = "restore" =>
        /\ (pc = "rf_run" /\ VolumeExists(loc.vol) /\ ~cmd.force) =>
              /\ Len(log) > 0
              /\ log[Len(log)] = Call("confirm-overwrite", loc.vol, TRUE)
        /\ \A i \in 1..Len(log) :
             (log[i].op = "restore" /\ log[i].vol \in DOMAIN snap.volumes /\ ~cmd.force) =>
                /\ \E j \in 1..(i - 1) : log[j] = Call("confirm-overwrite", log[i].vol, TRUE)
                /\ \A j \in 1..(i - 1) :
                     (log[j].op \in ConfirmOps /\ log[j].vol = log[i].vol) => log[j].ok
        /\ \A j \in 1..Len(log) :
             (log[j].op \in ConfirmOps /\ ~log[j].ok) =>
                LET v == log[j].vol
                IN /\ ~cmd.force
                   /\ \A i \in 1..Len(log) : log[i].vol = v => log[i].op \in ConfirmOps
                   /\ v \in DOMAIN volumes /\ volumes[v] = snap.volumes[v]
                   /\ (v \in DOMAIN meta) = (v \in DOMAIN snap.meta)
                   /\ (v \in DOMAIN meta => meta[v] = snap.meta[v])
                   /\ (idx = 0 => pc = "idle" /\ result = Cancelled /\ World = snap)
                   /\ (idx > 0 => \E k \in 1..Len(report) :
                                     report[k] = [target |-> v, err |-> Cancelled])

\* C6 witness: without --force, a restore into the existing, mounted volume
\* ran after both prompts were confirmed and replaced the volume's data.
C6_Witness ==
    /\ cmd.name = "restore" /\ ~cmd.force /\ pc = "idle" /\ result = Nil
    /\ log = <<Call("confirm-in-use", PData, TRUE), Call("confirm-overwrite", PData, TRUE),
               Call("restore", PData, TRUE)>>
    /\ snap.volumes[PData] = LiveData(PData)
    /\ volumes[PData] = OldData(PData)

\* The step of archiveVolume in which in-use detection reports the volume
\* as mounted
C7_Step ==
    (pc = "av_check" /\ Len(log') > Len(log)
        /\ log'[Len(log) + 1] = Call("in-use", loc.vol, TRUE)) =>
        /\ UNCHANGED worldVars
        /\ IF ~cmd.force
           THEN /\ log' = Append(log, Call("in-use", loc.vol, TRUE))
                /\ pc' = "archive_loop"
                /\ report' = Append(report, [target |-> targets[idx],
                                             err |-> Err("volume is in use")])
           ELSE /\ log' = Append(log, Call("in-use", loc.vol, TRUE))
                             \o (IF cmd.quiet THEN << >>
                                 ELSE <<Call("warn-in-use", loc.vol, TRUE)>>)
                /\ pc' = "av_run"
                /\ report' = report

\* The last in-use detection logged
LastDetection ==
    LET D == {i \in 1..Len(log) : log[i].op = "in-use"}
    IN IF D = {} THEN Call("in-use", NoName, FALSE)
       ELSE log[CHOOSE i \in D : \A k \in D : k <= i]

\* C7: when in-use detection reports the volume as mounted, archiveVolume
\* without --force ends for that volume with the error "volume is in use",
\* with no file written, no ledger row appended and no volume removed, and
\* the data-mover and the removal are reached only after a detection that
\* reported no mount; with --force it goes on to the data-mover as for a
\* volume not in use, with a warning in between unless --quiet.
C7_ArchiveRefusesInUse ==
    /\ []((cmd.name = "archive" /\ ~cmd.force /\ pc \in {"av_run", "av_remove"}) =>
             LastDetection = Call("in-use", loc.vol, FALSE))
    /\ [][C7_Step]_vars

\* C7 witness: an Archive without --force ended with the mounted volume
\* refused and still in place, nothing written.
C7_Witness ==
    /\ cmd.name = "archive" /\ ~cmd.force /\ pc = "idle"
    /\ \E k \in 1..Len(report) : report[k] = [target |-> PData, err |-> Err("volume is in use")]
    /\ \E i \in 1..Len(log) : log[i] = Call("in-use", PData, TRUE)
    /\ PData \in DOMAIN volumes
    /\ files = snap.files /\ ledger = snap.ledger

\* C8: a Clean with --dry-run leaves the volumes, the containers, the
\* ledger, the metadata and the archive files as they were when it began,
\* whatever the other options.
C8_DryRunNoEffects ==
    (cmd.name = "clean" /\ cmd.dryRun) => (World = snap /\ idx = 0)

\* C8 witness: a dry run with --unused --archive --force returned while
\* the volume no container mounts, a candidate, is still there.
C8_Witness ==
    /\ cmd.name = "clean" /\ cmd.dryRun /\ cmd.unused /\ cmd.archive /\ cmd.force
    /\ pc = "idle" /\ result = Nil
    /\ log = << >>
    /\ PDbData \in DOMAIN volumes /\ Len(ContainersUsing(PDbData)) = 0

\* Days between the volume's recorded last access and now
DaysElapsed(v) == (now - meta[v].lastAccessed[1]) \div SecondsPerDay

\* The candidates of Clean as claimed
IsCandidate(v) ==
    \/ cmd.unused /\ Len(ContainersUsing(v)) = 0
    \/ /\ cmd.stale > 0
       /\ v \in DOMAIN meta
       /\ meta[v].lastAccessed # << >>
       /\ DaysElapsed(v) >= cmd.stale

\* C9 (as claimed): when no detection and no metadata lookup failed, the
\* volumes Clean selects are exactly the volumes that are unused (with
\* --unused) or whose last recorded access is at least N days old (with
\* --stale N); Clean finds nothing to clean only when there is no such
\* volume.
C9_CleanSelectsCandidates ==
    (cmd.name = "clean" /\ \A i \in 1..Len(log) : log[i].op \notin {"in-use-error", "metadata-error"}) =>
        /\ (pc = "clean_loop" /\ idx = 1) =>
              Range(targets) = {v \in DOMAIN volumes : IsCandidate(v)}
        /\ (pc = "idle" /\ idx = 0 /\ result = Nil /\ ~cmd.dryRun) =>
              {v \in DOMAIN volumes : IsCandidate(v)} = {}

MultiTarget == {"backup", "archive", "clean", "restore"}

\* C10: in Backup, Archive, Clean and Restore with no target, every target
\* processed is reported in the order of the target list, the workflow is
\* at its k-th target after k-1 reports whatever their errors, and it
\* returns only when every target of the list has been attempted.
C10_FailureDoesNotStopWorkflow ==
    (cmd.name \in MultiTarget /\ idx >= 1) =>
        /\ Len(report) = idx - 1
        /\ Len(report) <= Len(targets)
        /\ \A k \in 1..Len(report) : report[k].target = targets[k]
        /\ (pc = "idle" => Len(report) = Len(targets) /\ result = Nil)

\* C10 witness: a workflow returned after its first target failed and its
\* second target was processed without error.
C10_Witness ==
    /\ cmd.name \in MultiTarget /\ pc = "idle"
    /\ Len(targets) = 2 /\ Len(report) = 2
    /\ report[1].err # Nil
    /\ report[2].err = Nil
    /\ \E i \in 1..Len(log) : log[i].vol = targets[2] /\ log[i].ok

\* commands.GetExitCode, as runCommand applies it to the workflow's error:
\* the sentinel errors are matched by identity, everything else is 1
GetExitCode(err) ==
    IF err = Nil THEN 0
    ELSE IF err \in {ErrVolumeNotFound, ErrBackupNotFound} THEN 2
    ELSE IF err = ErrComposeNotFound THEN 6
    ELSE 1

\* C11 (as claimed): when a multi-target workflow returns after its loop,
\* its exit code is 0 exactly when every target was processed without
\* error.
C11_FailedTargetFailsWorkflow ==
    (cmd.name \in MultiTarget /\ pc = "idle" /\ idx >= 1) =>
        (GetExitCode(result) = 0 <=> \A k \in 1..Len(report) : report[k].err = Nil)

\* ----------------------------------------------------------------- Clone
\* validateVolumeName, on names of "_"-separated tokens: not empty, not
\* "." or "..", first character alphanumeric, no ".." and no character
\* outside [a-zA-Z0-9_.-]
BadTokens == {"..", "a/b"}
ValidVolumeName(name) ==
    /\ name # NoName
    /\ name[1] # ""
    /\ Range(name) \cap BadTokens = {}

\* strings.HasPrefix(name, project + "_")
HasProjectPrefix(name, project) == IsPrefix(project, name) /\ Len(name) > Len(project)

\* Clone: the target volume name, with the project prefix added when the
\* new name does not carry it
CloneTarget(newName, project) ==
    IF project # NoName /\ ~HasProjectPrefix(newName, project)
    THEN project \o newName
    ELSE newName

\* CloneOptions and the loaded context of one "dvm clone" command line
CloneCommands ==
    {[name |-> "clone", service |-> s, newName |-> n, compose |-> co] :
        s \in {Web, Db, Ghost, PData, NoName},
        n \in {<<"copy">>, <<"p", "copy">>, <<"data">>, <<"dbdata">>, <<"..">>, NoName},
        co \in BOOLEAN}

\* docker.Client.CopyVolume: the target is created when it does not exist
\* (CreateVolume may fail); the copy container mounts both volumes (the
\* engine creates a missing source on mount) and may fail before or while
\* it copies.  [ok, ran, volumes].
CopyOutcomes(vols, source, target) ==
    LET made == CreateVolume(vols, target)
        mounted == CreateVolume(made, source)
    IN (IF target \in DOMAIN vols THEN {}
        ELSE {[ok |-> FALSE, ran |-> FALSE, volumes |-> vols]}) \cup
       {[ok |-> FALSE, ran |-> FALSE, volumes |-> made],
        [ok |-> FALSE, ran |-> TRUE, volumes |-> mounted],
        [ok |-> FALSE, ran |-> TRUE, volumes |-> [mounted EXCEPT ![target] = PartialData]],
        [ok |-> TRUE, ran |-> TRUE, volumes |-> [mounted EXCEPT ![target] = mounted[source]]]}

\* Clone's result when CopyVolume succeeded: an error of UpdateLastAccessed
\* is returned
CloneMetadataResult(metaOk) ==
    IF metaOk THEN Nil
    ELSE Wrap("clone completed but failed to update metadata", StoreErr("UpdateLastAccessed"))

\* Clone up to the copy: argument checks, the source volume, the target
\* name, and the overwrite prompt and removal of a target that exists.
\* loc.svc holds the source volume and loc.vol the target volume.
Clone ==
    /\ pc = "start"
    /\ cmd.name = "clone"
    /\ UNCHANGED <<running, files, storeVars, now, runs, cmd, targets, idx, report, snap, hist>>
    /\ LET sourceVolume == ResolveVolumeName(cmd.service)
           targetVolume == CloneTarget(cmd.newName, Project)
           fail(err) == Return(err) /\ UNCHANGED <<volumes, loc, log>>
       IN IF cmd.service = NoName THEN fail(Err("service name is required"))
          ELSE IF cmd.newName = NoName THEN fail(Err("new name is required"))
          ELSE IF ~ValidVolumeName(cmd.newName) THEN fail(Err("invalid volume name"))
          ELSE IF sourceVolume = NoName THEN fail(ErrVolumeNotFound)
          ELSE IF ~VolumeExists(targetVolume)
               THEN /\ loc' = [NoLoc EXCEPT !.svc = sourceVolume, !.vol = targetVolume]
                    /\ pc' = "cl_copy"
                    /\ UNCHANGED <<volumes, log, result>>
               ELSE \E answer \in BOOLEAN, removeOk \in BOOLEAN :
                      IF ~answer
                      THEN /\ removeOk
                           /\ log' = Append(log, Call("confirm", targetVolume, FALSE))
                           /\ Return(Err("clone cancelled"))
                           /\ UNCHANGED <<volumes, loc>>
                      ELSE /\ log' = log \o <<Call("confirm", targetVolume, TRUE),
                                               Call("remove", targetVolume, removeOk)>>
                           /\ IF removeOk
                              THEN /\ volumes' = RemoveVolume(volumes, targetVolume)
                                   /\ loc' = [NoLoc EXCEPT !.svc = sourceVolume,
                                                           !.vol = targetVolume]
                                   /\ pc' = "cl_copy"
                                   /\ UNCHANGED result
                              ELSE /\ Return(Wrap("failed to remove existing volume",
                                                  EngineErr("remove")))
                                   /\ UNCHANGED <<volumes, loc>>

\* Clone: the copy and the last-accessed metadata of the target
CloneCopy ==
    /\ pc = "cl_copy"
    /\ UNCHANGED <<running, files, ledger, nextId, runs, cmd, targets, idx, loc, report,
                   snap, hist>>
    /\ \E o \in CopyOutcomes(volumes, loc.svc, loc.vol), metaOk \in BOOLEAN, dt \in {0, 1} :
         /\ volumes' = o.volumes
         /\ IF ~o.ok
            THEN /\ metaOk /\ dt = 0
                 /\ log' = Append(log, Call("copy", loc.vol, FALSE))
                 /\ Return(Wrap("clone failed", EngineErr("copy")))
                 /\ UNCHANGED <<meta, now>>
            ELSE /\ now' = Advance(now, dt)
                 /\ meta' = IF metaOk THEN UpdateLastAccessed(meta, loc.vol, now') ELSE meta
                 /\ log' = log \o <<Call("copy", loc.vol, TRUE),
                                    Call("metadata", loc.vol, metaOk)>>
                 /\ Return(CloneMetadataResult(metaOk))

CloneNext ==
    \/ \E c \in CloneCommands : Invoke(c)
    \/ Clone
    \/ CloneCopy

SpecClone == InitUsed /\ [][CloneNext]_vars

\* C12 (as claimed): when Clone's copy into the target succeeded and the
\* metadata write that follows it failed, Clone returns no error (the
\* failure is a warning) and the target volume is left in place with the
\* copied data.
C12_MetadataFailureIsWarning ==
    (/\ cmd.name = "clone"
     /\ pc = "idle"
     /\ \E i \in 1..Len(log) : log[i] = Call("copy", loc.vol, TRUE)
     /\ \E i \in 1..Len(log) : log[i] = Call("metadata", loc.vol, FALSE)) =>
        /\ result = Nil
        /\ loc.vol \in DOMAIN volumes

\* ------------------------------------------------- Backup, then Restore
\* The number of command lines run one after the other
SeqRuns == 2

\* "dvm backup" of the project, then "dvm restore <service>" without a file
SeqCommands(n) ==
    IF n = 0
    THEN {c \in BackupCommands : c.compose /\ c.services \in {<< >>, <<Web, Worker>>}}
    ELSE {c \in RestoreCommands :
            /\ c.compose /\ ~c.select /\ ~c.list /\ ~c.restart
            /\ c.target \in {NameTarget(Web), NameTarget(Db)}}

\* main, for a sequence of command lines: each one is a process of its own
\* that starts when the one before has exited
InvokeNext(c) ==
    /\ pc = "idle"
    /\ runs < SeqRuns
    /\ runs' = runs + 1
    /\ cmd' = c
    /\ pc' = "start"
    /\ targets' = << >>
    /\ idx' = 0
    /\ loc' = NoLoc
    /\ log' = << >>
    /\ report' = << >>
    /\ snap' = World
    /\ UNCHANGED <<worldVars, now, result, hist>>

SeqNext ==
    \/ \E c \in SeqCommands(runs) : InvokeNext(c)
    \/ BackupTargets
    \/ BackupLoop
    \/ BackupVolumeCheck
    \/ BackupVolumeRun
    \/ BackupVolumeRecord
    \/ BackupVolumeCleanup
    \/ Restore
    \/ RestoreService
    \/ RestoreConfirm
    \/ RestoreRun

SpecSeq == Init /\ [][SeqNext]_vars

\* The remaining ledger records of v with the latest creation time
LatestRecords(v) == {r \in RecordsOf(v) : \A q \in RecordsOf(v) : q.createdAt <= r.createdAt}

\* C13 (as claimed): in project p, where service web declares the volume
\* data, after every backupVolume run of p_data succeeded in every step,
\* "restore web" without a file selects the archive file that the most
\* recent remaining ledger record of p_data names.
C13_RestoreSelectsLatestRecord ==
    (/\ cmd.name = "restore"
     /\ cmd.target = NameTarget(Web)
     /\ pc = "idle"
     /\ ~hist[PData].dirty
     /\ hist[PData].made # << >>) =>
        loc.path \in {r.filePath : r \in LatestRecords(PData)}

\* ------------------------------------------------------- project names
\* Text is a sequence of characters.  The characters names are drawn from:
\* lower and upper case letters, a digit, the three separators, and two
\* characters outside [A-Za-z0-9_.-]
MaxNameLen == 3
NameChars == {"a", "B", "7", "-", "_", ".", "$", " "}

\* The texts over an alphabet of at most n characters
Texts(alphabet, n) == UNION {[1..k -> alphabet] : k \in 0..n}

\* The pure functions of the program are applied by a process of their own:
\* cmd holds the input, targets the values returned so far, and the world
\* is not touched.
InitPure(inputs) ==
    /\ volumes = [v \in {PData} |-> LiveData(v)]
    /\ running = Containers
    /\ files = NoFiles
    /\ ledger = {}
    /\ nextId = 1
    /\ meta = NoMeta
    /\ now = 0
    /\ runs = 0
    /\ cmd \in inputs
    /\ pc = "start"
    /\ targets = << >>
    /\ idx = 0
    /\ loc = NoLoc
    /\ result = Nil
    /\ log = << >>
    /\ report = << >>
    /\ snap = [volumes |-> << >>, running |-> {}, files |-> << >>, ledger |-> {}, meta |-> << >>]
    /\ hist = [v \in AllVolumes |-> NoHistory]

\* The function returned value: it is appended to targets
Returned(value, then) ==
    /\ targets' = Append(targets, value)
    /\ pc' = then
    /\ UNCHANGED <<worldVars, now, runs, cmd, idx, loc, result, log, report, snap, hist>>

\* strings.ToLower, character by character
ToLower(c) ==
    CASE c = "A" -> "a"
      [] c = "B" -> "b"
      [] c = "Z" -> "z"
      [] OTHER -> c

LowerLetters == {"a", "b", "z"}
UpperLetters == {"A", "B", "Z"}
Digits == {"0", "1", "7"}
Separators == {"-", "_", "."}

\* The characters normalizeProjectName keeps
IsNameChar(r) == r \in LowerLetters \/ r \in Digits \/ r = "-" \/ r = "_" \/ r = "."

\* strings.TrimLeft(s, cutset)
RECURSIVE TrimLeft(_, _)
TrimLeft(s, cutset) ==
    IF s # << >> /\ Head(s) \in cutset THEN TrimLeft(Tail(s), cutset) ELSE s

\* normalizeProjectName without the final TrimLeft
normalizeProjectName_NoTrim(name) ==
    SelectSeq([i \in 1..Len(name) |-> ToLower(name[i])], IsNameChar)

\* compose.normalizeProjectName: lower case, the characters outside
\* [a-z0-9-_.] dropped, the leading run of "-_." stripped
normalizeProjectName(name) ==
    TrimLeft(SelectSeq([i \in 1..Len(name) |-> ToLower(name[i])], IsNameChar), Separators)

NormalizeInputs == {[name |-> "normalize", text |-> x] : x \in Texts(NameChars, MaxNameLen)}

\* normalizeProjectName applied to the input, then to its own output
NormalizeName ==
    /\ cmd.name = "normalize"
    /\ pc \in {"start", "again"}
    /\ Returned(normalizeProjectName(IF pc = "start" THEN cmd.text ELSE targets[Len(targets)]),
                IF pc = "start" THEN "again" ELSE "idle")

InitNormalize == InitPure(NormalizeInputs)

SpecNormalize == InitNormalize /\ [][NormalizeName]_vars

\* ^[a-z0-9][a-z0-9_.-]*$
IsValidProjectName(s) ==
    /\ s # << >>
    /\ s[1] \in LowerLetters \cup Digits
    /\ \A i \in 1..Len(s) : s[i] \in LowerLetters \cup Digits \cup Separators

\* C15: normalizeProjectName returns a value for every input, the empty
\* text included; every value it returns is empty or matches
\* ^[a-z0-9][a-z0-9_.-]*$; and applied to its own output it returns that
\* output.
C15_NormalizeIdempotent ==
    cmd.name = "normalize" =>
        /\ \A i \in 1..Len(targets) : targets[i] = << >> \/ IsValidProjectName(targets[i])
        /\ (pc = "idle" => Len(targets) = 2 /\ targets[2] = targets[1])
        /\ (pc = "again" => Len(targets) = 1)

\* An input with upper case, a dropped character and leading separators
\* was normalized twice
C15_Witness ==
    /\ cmd.name = "normalize"
    /\ cmd.text = <<"-", "B", "$">>
    /\ pc = "idle"
    /\ targets = <<<<"b">>, <<"b">>>>

\* filepath.Dir of the compose file's path, as the sequence of its
\* directory elements (<< >> is ".", the path has no directory component)
FilepathDir(path) == path.dir

\* filepath.Base of a directory
FilepathBase(dir) == IF dir = << >> THEN <<".">> ELSE dir[Len(dir)]

\* GetProjectName step 4: the directory name, from the working directory
\* when the path has no directory component and os.Getwd succeeds
DirectoryName(path, cwd, cwdOk) ==
    IF FilepathDir(path) = << >> /\ cwdOk
    THEN FilepathBase(cwd)
    ELSE FilepathBase(FilepathDir(path))

\* GetProjectName looking at the environment variable before the name field
GetProjectName_EnvFirst(override, declared, env, path, cwd, cwdOk) ==
    IF override # << >> THEN normalizeProjectName(override)
    ELSE IF env # << >> THEN normalizeProjectName(env)
    ELSE IF declared # << >> THEN normalizeProjectName(declared)
    ELSE normalizeProjectName(DirectoryName(path, cwd, cwdOk))

\* ComposeFile.GetProjectName(override), with cf.Name, the value of
\* COMPOSE_PROJECT_NAME ("" when unset), cf.path and the working directory
GetProjectName(override, declared, env, path, cwd, cwdOk) ==
    IF override # << >> THEN normalizeProjectName(override)
    ELSE IF declared # << >> THEN normalizeProjectName(declared)
    ELSE IF env # << >> THEN normalizeProjectName(env)
    ELSE normalizeProjectName(DirectoryName(path, cwd, cwdOk))

\* The inputs of one project-name resolution: each of override, declared
\* name and environment variable absent or present, the compose file with
\* or without a directory component
ProjectNameInputs ==
    {[name |-> "project-name", override |-> o, declared |-> d, env |-> e,
      path |-> [dir |-> p], cwd |-> <<<<"home">>, <<"Z", "a">>>>, cwdOk |-> ok] :
        o \in {<< >>, <<"A", "0">>, <<"-", "$">>},
        d \in {<< >>, <<"B", "1">>, <<".", "b">>},
        e \in {<< >>, <<"Z", "7">>},
        p \in {<< >>, <<<<"tmp">>, <<"A", "b">>>>, <<<<".", ".">>>>},
        ok \in BOOLEAN}

ResolveProjectName ==
    /\ cmd.name = "project-name"
    /\ pc = "start"
    /\ Returned(GetProjectName(cmd.override, cmd.declared, cmd.env, cmd.path, cmd.cwd, cmd.cwdOk),
                "idle")

InitProjectName == InitPure(ProjectNameInputs)

SpecProjectName == InitProjectName /\ [][ResolveProjectName]_vars

\* The four sources of the project name, highest priority first
NameSources ==
    <<cmd.override, cmd.declared, cmd.env, DirectoryName(cmd.path, cmd.cwd, cmd.cwdOk)>>

\* C14: whichever of override, declared name and environment variable are
\* present, GetProjectName returns the normalized value of the first
\* present source in the order override, declared name,
\* COMPOSE_PROJECT_NAME, directory name; a source is not used while one
\* before it is non-empty.
C14_ProjectNamePriority ==
    (cmd.name = "project-name" /\ pc = "idle") =>
        \E i \in 1..4 :
            /\ NameSources[i] # << >>
            /\ \A j \in 1..(i - 1) : NameSources[j] = << >>
            /\ targets = <<normalizeProjectName(NameSources[i])>>

\* The declared name won over the environment variable and the directory
C14_Witness ==
    /\ cmd.name = "project-name"
    /\ pc = "idle"
    /\ cmd.override = << >> /\ cmd.declared = <<"B", "1">> /\ cmd.env = <<"Z", "7">>
    /\ cmd.path.dir # << >>
    /\ targets = <<<<"b", "1">>>>

\* ------------------------------------------- environment substitution
\* expandEnvVars, as TestExpandEnvVars exercises it and as the substitution
\* is documented: $NAME, ${NAME}, ${NAME:-default}, ${NAME-default}, the
\* escapes $$ and $${...}, names [A-Za-z_][A-Za-z0-9_]*, malformed
\* patterns verbatim.

\* The number of pieces a text is made of
MaxPieces == 2

\* [A-Za-z_] and [A-Za-z0-9_]
IsVarStart(c) == c \in LowerLetters \/ c \in UpperLetters \/ c = "_"
IsVarChar(c) == IsVarStart(c) \/ c \in Digits

\* The length of the longest prefix of s made of variable-name characters
RECURSIVE SpanLen(_)
SpanLen(s) == IF s # << >> /\ IsVarChar(Head(s)) THEN 1 + SpanLen(Tail(s)) ELSE 0

\* The length of the variable name s starts with, 0 when it starts with none
VarNameLen(s) == IF s # << >> /\ IsVarStart(Head(s)) THEN SpanLen(s) ELSE 0

\* strings.Index(s, c), 1-based; 0 when c is not in s
IndexOf(s, c) ==
    IF \E i \in 1..Len(s) : s[i] = c
    THEN CHOOSE i \in 1..Len(s) : s[i] = c /\ \A j \in 1..(i - 1) : s[j] # c
    ELSE 0

\* os.LookupEnv
Unset == [set |-> FALSE, value |-> << >>]
LookupEnv(env, name) == IF name \in DOMAIN env THEN env[name] ELSE Unset

\* The default of ${NAME-default} used for the one of ${NAME:-default} too
UseDefault_UnsetOnly(colon, var) == ~var.set

\* Whether the default is substituted: ":-" when the variable is unset or
\* empty, "-" only when it is unset
UseDefault(colon, var) ==
    IF colon THEN ~var.set \/ var.value = << >> ELSE ~var.set

\* The text between "${" and "}": [ok, text], ok = FALSE for a malformed one
ExpandBraced(content, env) ==
    LET n == VarNameLen(content)
        var == LookupEnv(env, SubSeq(content, 1, n))
        rest == SubSeq(content, n + 1, Len(content))
    IN IF n = 0 THEN [ok |-> FALSE, text |-> << >>]
       ELSE IF rest = << >> THEN [ok |-> TRUE, text |-> var.value]
       ELSE IF Len(rest) >= 2 /\ rest[1] = ":" /\ rest[2] = "-"
       THEN [ok |-> TRUE,
             text |-> IF UseDefault(TRUE, var) THEN SubSeq(rest, 3, Len(rest)) ELSE var.value]
       ELSE IF rest[1] = "-"
       THEN [ok |-> TRUE,
             text |-> IF UseDefault(FALSE, var) THEN SubSeq(rest, 2, Len(rest)) ELSE var.value]
       ELSE [ok |-> FALSE, text |-> << >>]

\* No "$$" is taken for an escape
IsEscape_Never(s) == FALSE

\* s, which starts with "$", starts with the escape "$$"
IsEscape(s) == Len(s) >= 2 /\ s[2] = "$"

\* expandEnvVars(s) in the environment env
RECURSIVE expandEnvVars(_, _)
expandEnvVars(s, env) ==
    IF s = << >> THEN << >>
    ELSE IF Head(s) # "$" THEN <<Head(s)>> \o expandEnvVars(Tail(s), env)
    ELSE IF IsEscape(s) THEN <<"$">> \o expandEnvVars(SubSeq(s, 3, Len(s)), env)
    ELSE IF Len(s) >= 2 /\ s[2] = "{"
    THEN LET close == IndexOf(s, "}")
             braced == ExpandBraced(SubSeq(s, 3, close - 1), env)
         IN IF close = 0 THEN <<"$">> \o expandEnvVars(Tail(s), env)
            ELSE (IF braced.ok THEN braced.text ELSE SubSeq(s, 1, close))
                    \o expandEnvVars(SubSeq(s, close + 1, Len(s)), env)
    ELSE LET n == VarNameLen(Tail(s))
         IN IF n = 0 THEN <<"$">> \o expandEnvVars(Tail(s), env)
            ELSE LookupEnv(env, SubSeq(s, 2, n + 1)).value
                    \o expandEnvVars(SubSeq(s, n + 2, Len(s)), env)

\* The pieces texts are made of: the variable A, the default b
PlainVar == <<"$", "A">>
BracedVar == <<"$", "{", "A", "}">>
ColonDefault == <<"$", "{", "A", ":", "-", "b">> \o <<"}">>
DashDefault == <<"$", "{", "A", "-", "b", "}">>
EscapedVar == <<"$", "$", "A">>
EscapedBraced == <<"$", "$", "{", "A", "}">>
EmptyName == <<"$", "{", "}">>
DigitName == <<"$", "{", "1", "}">>
DashName == <<"$", "{", "-", "b", "}">>
PlainPieces == {<<".">>, <<"a">>}
SubstitutionPieces == {PlainVar, BracedVar, ColonDefault, DashDefault}
VerbatimPieces == {EscapedVar, EscapedBraced, EmptyName, DigitName, DashName}
Pieces == PlainPieces \cup SubstitutionPieces \cup VerbatimPieces

\* The variable A unset, set to the empty text, set to "z"
VarStates == {Unset, [set |-> TRUE, value |-> << >>], [set |-> TRUE, value |-> <<"z">>]}
EnvWith(var) == [n \in {<<"A">>} |-> var]

RECURSIVE Flatten(_)
Flatten(pieces) == IF pieces = << >> THEN << >> ELSE Head(pieces) \o Flatten(Tail(pieces))

ExpandInputs ==
    {[name |-> "expand", pieces |-> ps, var |-> var] :
        ps \in Texts(Pieces, MaxPieces), var \in VarStates}

ExpandText ==
    /\ cmd.name = "expand"
    /\ pc = "start"
    /\ Returned(expandEnvVars(Flatten(cmd.pieces), EnvWith(cmd.var)), "idle")

InitExpand == InitPure(ExpandInputs)

SpecExpand == InitExpand /\ [][ExpandText]_vars

\* What the description of the substitution gives for one piece
SubstitutionOf(piece, var) ==
    IF piece = ColonDefault THEN (IF ~var.set \/ var.value = << >> THEN <<"b">> ELSE var.value)
    ELSE IF piece = DashDefault THEN (IF ~var.set THEN <<"b">> ELSE var.value)
    ELSE IF piece \in {PlainVar, BracedVar} THEN (IF var.set THEN var.value ELSE << >>)
    ELSE IF piece = EscapedVar THEN <<"$", "A">>
    ELSE IF piece = EscapedBraced THEN <<"$", "{", "A", "}">>
    ELSE piece

RECURSIVE SubstitutionOfAll(_, _)
SubstitutionOfAll(pieces, var) ==
    IF pieces = << >> THEN << >>
    ELSE SubstitutionOf(Head(pieces), var) \o SubstitutionOfAll(Tail(pieces), var)

\* No $A is followed by a character that would make its name longer
Delimited(pieces) ==
    \A k \in 1..(Len(pieces) - 1) : pieces[k] = PlainVar => ~IsVarChar(pieces[k + 1][1])

\* C16: in a text made of plain characters and the forms $A, ${A},
\* ${A:-b}, ${A-b}, expandEnvVars replaces ${A:-b} by b when A is unset or
\* empty and by A's value otherwise, ${A-b} by b only when A is unset (by
\* the empty text when A is set and empty), and $A and ${A} by A's value,
\* which is the empty text when A is unset.
C16_DefaultForms ==
    (/\ cmd.name = "expand"
     /\ pc = "idle"
     /\ Range(cmd.pieces) \subseteq SubstitutionPieces \cup PlainPieces
     /\ Delimited(cmd.pieces)) =>
        targets = <<SubstitutionOfAll(cmd.pieces, cmd.var)>>

\* ${A:-b} and ${A-b} were expanded with A set to the empty text
C16_Witness ==
    /\ cmd.name = "expand"
    /\ pc = "idle"
    /\ cmd.pieces = <<ColonDefault, DashDefault>>
    /\ cmd.var = [set |-> TRUE, value |-> << >>]
    /\ targets = <<<<"b">>>>

\* C17: wherever they stand in a text, $$A and $${A} come out as the
\* literal $A and ${A} whatever A's value is, and the malformed patterns
\* ${}, ${1} and ${-b} come out unchanged.
C17_EscapesAndMalformed ==
    (/\ cmd.name = "expand"
     /\ pc = "idle"
     /\ Range(cmd.pieces) \cap VerbatimPieces # {}
     /\ Delimited(cmd.pieces)) =>
        targets = <<SubstitutionOfAll(cmd.pieces, cmd.var)>>

\* $${A} next to ${A} was expanded with A set to "z"
C17_Witness ==
    /\ cmd.name = "expand"
    /\ pc = "idle"
    /\ cmd.pieces = <<EscapedBraced, BracedVar>>
    /\ cmd.var = [set |-> TRUE, value |-> <<"z">>]
    /\ targets = <<<<"$", "{", "A", "}", "z">>>>

\* ------------------------------------------------------ LoadComposeFile
\* strings.TrimSpace, as the YAML decoder reads a plain scalar
RECURSIVE TrimRight(_, _)
TrimRight(s, cutset) ==
    IF s # << >> /\ s[Len(s)] \in cutset THEN TrimRight(SubSeq(s, 1, Len(s) - 1), cutset) ELSE s

YamlScalar(text) == TrimRight(TrimLeft(text, {" "}), {" "})

\* compose.LoadComposeFile: the bytes of the file go to yaml.Unmarshal as
\* they are read; cf.Name is the scalar of the "name" key, cf.path the path
LoadComposeFile(raw, path, env) == [Name |-> YamlScalar(raw.name), path |-> path]

\* A compose file whose "name" key holds a text with substitution forms
LoadInputs ==
    {[name |-> "load", pieces |-> ps, var |-> var,
      path |-> [dir |-> <<<<"tmp">>, <<"A", "b">>>>]] :
        ps \in Texts(Pieces, MaxPieces), var \in VarStates}

\* Context.LoadCompose: LoadComposeFile, then GetProjectName without an
\* override and without COMPOSE_PROJECT_NAME
LoadCompose ==
    /\ cmd.name = "load"
    /\ pc = "start"
    /\ LET cf == LoadComposeFile([name |-> Flatten(cmd.pieces)], cmd.path, EnvWith(cmd.var))
       IN Returned(GetProjectName(<< >>, cf.Name, << >>, cf.path, << >>, FALSE), "idle")

InitLoad == InitPure(LoadInputs)

SpecLoad == InitLoad /\ [][LoadCompose]_vars

\* C18 (as claimed): a compose file whose name is written ${A:-b} gives
\* the project name b when A is unset and A's value when A is set to a
\* value.
C18_LoadSubstitutesName ==
    (cmd.name = "load" /\ pc = "idle" /\ cmd.pieces = <<ColonDefault>>) =>
        targets = <<normalizeProjectName(SubstitutionOf(ColonDefault, cmd.var))>>

\* ----------------------------------------------------- GetVolumeMapping
\* The number of volume specs of a service
MaxSpecs == 2

\* strings.Split(s, sep), sep one character
RECURSIVE Split(_, _)
Split(s, sep) ==
    LET i == IndexOf(s, sep)
    IN IF i = 0 THEN <<s>>
       ELSE <<SubSeq(s, 1, i - 1)>> \o Split(SubSeq(s, i + 1, Len(s)), sep)

\* The "only named volumes" test: no bind-mount prefix
IsNamedSource(source) == source = << >> \/ source[1] \notin {"/", ".", "~"}

\* A decoded YAML value: a key that is absent, a string, a value of
\* another type (a number, a boolean, null)
Absent == [kind |-> "absent", text |-> << >>]
Str(text) == [kind |-> "string", text |-> text]
NotAString == [kind |-> "other", text |-> << >>]

\* The type test of the long form: a type that is a string other than
\* "volume" excludes the entry
TypeExcludes(type) == type.kind = "string" /\ type.text # <<"v", "o", "l">>

\* GetVolumeMapping for one element of service.Volumes: the mappings it
\* appends (none or one)
MappingOf(spec, serviceName) ==
    IF spec.form = "short"
    THEN LET parts == Split(spec.text, ":")
         IN IF Len(parts) < 2 THEN << >>
            ELSE IF IsNamedSource(parts[1])
            THEN <<[VolumeName |-> parts[1], MountPath |-> parts[2], Service |-> serviceName]>>
            ELSE << >>
    ELSE IF spec.source.kind = "absent" \/ spec.target.kind = "absent" THEN << >>
    ELSE IF spec.source.kind # "string" \/ spec.target.kind # "string"
            \/ spec.source.text = << >> \/ spec.target.text = << >> THEN << >>
    ELSE IF TypeExcludes(spec.type) THEN << >>
    ELSE IF IsNamedSource(spec.source.text)
    THEN <<[VolumeName |-> spec.source.text, MountPath |-> spec.target.text,
            Service |-> serviceName]>>
    ELSE << >>

RECURSIVE MappingsOf(_, _)
MappingsOf(specs, serviceName) ==
    IF specs = << >> THEN << >>
    ELSE MappingOf(Head(specs), serviceName) \o MappingsOf(Tail(specs), serviceName)

\* ComposeFile.GetVolumeMapping(serviceName): [mappings, err]
GetVolumeMapping(services, serviceName) ==
    IF serviceName \notin DOMAIN services
    THEN [mappings |-> << >>, err |-> Err("service not found")]
    ELSE [mappings |-> MappingsOf(services[serviceName], serviceName), err |-> Nil]

\* Volume specs as a compose file may hold them
SourceTexts == {<<"d">>, <<"/", "d">>, <<".", "/", "d">>, <<"~", "/", "d">>}
TargetText == <<"/", "t">>
ShortSpecs ==
    {[form |-> "short", text |-> s \o <<":">> \o TargetText \o ro] :
        s \in SourceTexts, ro \in {<< >>, <<":", "r", "o">>}}
        \cup {[form |-> "short", text |-> TargetText]}
LongSpecs ==
    {[form |-> "long", source |-> s, target |-> t, type |-> ty] :
        s \in {Absent, Str(<< >>), Str(<<"d">>), Str(<<"/", "d">>)},
        t \in {Absent, Str(<< >>), Str(TargetText)},
        ty \in {Absent, Str(<<"v", "o", "l">>), Str(<<"b", "i", "n", "d">>), NotAString}}

VolumeInputs ==
    {[name |-> "volumes", service |-> Web, specs |-> specs] :
        specs \in Texts(ShortSpecs \cup LongSpecs, MaxSpecs)}
        \cup {[name |-> "volumes", service |-> Ghost, specs |-> << >>]}

ExtractVolumes ==
    /\ cmd.name = "volumes"
    /\ pc = "start"
    /\ Returned(GetVolumeMapping([s \in {Web} |-> cmd.specs], cmd.service), "idle")

InitVolumes == InitPure(VolumeInputs)

SpecVolumes == InitVolumes /\ [][ExtractVolumes]_vars

\* The source and target of a spec, as the claim reads them
SpecSource(spec) ==
    IF spec.form = "long" THEN spec.source
    ELSE IF Len(Split(spec.text, ":")) < 2 THEN Absent
    ELSE Str(Split(spec.text, ":")[1])
SpecTarget(spec) ==
    IF spec.form = "long" THEN spec.target
    ELSE IF Len(Split(spec.text, ":")) < 2 THEN Absent
    ELSE Str(Split(spec.text, ":")[2])

\* The specs the claim classifies as named volumes
IsNamedVolume(spec) ==
    /\ SpecSource(spec).kind = "string"
    /\ SpecTarget(spec).kind = "string"
    /\ (SpecSource(spec).text = << >> \/ SpecSource(spec).text[1] \notin {"/", ".", "~"})
    /\ (spec.form = "long" =>
            /\ SpecSource(spec).text # << >>
            /\ SpecTarget(spec).text # << >>
            /\ (spec.type.kind # "absent" => spec.type = Str(<<"v", "o", "l">>)))

\* C19 (as claimed): GetVolumeMapping returns, in the order of the
\* service's specs, one mapping for each spec whose source does not start
\* with "/", "." or "~" and, in long form, whose source and target are
\* non-empty and whose type, when the key is present, equals "volume", and
\* no mapping for any other spec.
C19_NamedVolumesOnly ==
    (cmd.name = "volumes" /\ cmd.service = Web /\ pc = "idle") =>
        LET named == SelectSeq(cmd.specs, IsNamedVolume)
            got == targets[1].mappings
        IN /\ Len(got) = Len(named)
           /\ \A i \in 1..Len(named) :
                /\ got[i].VolumeName = SpecSource(named[i]).text
                /\ got[i].MountPath = SpecTarget(named[i]).text

\* The part of an archive file name before its timestamp
NameBase(path) == SubSeq(path.name, 1, Len(path.name) - 2)

C21_ArchiveFilesNamedFromVolume ==
    /\ \A r \in ledger : NameBase(r.filePath) = r.volumeName
    /\ (pc = "av_remove" => NameBase(loc.path) = loc.vol)

\* The metadata row of v was written by the running invocation: it is new,
\* or it differs from the row the invocation started with, or it carries
\* the current time
Upserted(v) ==
    /\ v \in DOMAIN meta
    /\ \/ v \notin DOMAIN snap.meta
       \/ meta[v] # snap.meta[v]
       \/ meta[v].lastAccessed = <<now>>
       \/ meta[v].lastBackup = <<now>>

\* C22 (as claimed): a Swap that returned without error has upserted the
\* metadata row of the volume it swapped.
C22_SwapUpsertsMetadata ==
    (SwapReturned /\ result = Nil /\ HasOkCall("create")) => Upserted(loc.vol)

\* The exit code of the failure kind of err, wherever in its chain of
\* wrapped errors the kind was raised
FailureKindCode(err) ==
    IF err = Nil THEN 0
    ELSE IF Range(err.chain) \cap {"volume not found", "backup not found"} # {} THEN 2
    ELSE IF "compose file not found" \in Range(err.chain) THEN 6
    ELSE 1

\* C23 (as claimed): when a command has returned, the exit code is the one
\* of the failure kind of its error, also when the error was wrapped with
\* context inside the workflow.
C23_ExitCodeOfFailureKind ==
    pc = "idle" => GetExitCode(result) = FailureKindCode(result)

\* The running command line carries a force option that is set
Forced == "force" \in DOMAIN cmd /\ cmd.force

\* The calls that remove a volume or write into one that existed when the
\* command started
IsDestructive(call) ==
    \/ call.op = "remove"
    \/ call.op \in {"restore", "copy"} /\ call.vol \in DOMAIN snap.volumes

\* C24 (as claimed): without a force option, every volume removal and
\* every data-mover write into an existing volume comes after a prompt
\* that the user confirmed.
C24_NoDestructionUnconfirmed ==
    ~Forced =>
        \A i \in 1..Len(log) :
            IsDestructive(log[i]) =>
                \E j \in 1..(i - 1) :
                    log[j].op \in {"confirm", "confirm-overwrite"} /\ log[j].ok

\* ---------------------------------------------------- ResolveVolumeName
\* The volumes the engine may hold when a name is resolved: the project's
\* volumes, a volume named like a service, and a volume named like a
\* declared volume without the project prefix
ResolveVolumes == {PData, PDbData, Web, <<"data">>, ProjectName \o Web}
ResolveInputs ==
    {[name |-> "resolve", input |-> i, compose |-> co] :
        i \in {Web, Db, Ghost, <<"data">>, PData}, co \in BOOLEAN}

InitResolve ==
    /\ \E vs \in SUBSET ResolveVolumes : volumes = [v \in vs |-> LiveData(v)]
    /\ running = Containers
    /\ files = NoFiles
    /\ ledger = {}
    /\ nextId = 1
    /\ meta = NoMeta
    /\ InitRun

ResolveName ==
    /\ cmd.name = "resolve"
    /\ pc = "start"
    /\ Returned(ResolveVolumeName(cmd.input), "idle")

ResolveNext ==
    \/ \E c \in ResolveInputs : Invoke(c)
    \/ ResolveName

SpecResolve == InitResolve /\ [][ResolveNext]_vars

\* The full name of the volume the loaded compose file declares for the
\* input as a service; NoName when it declares none
DeclaredFor(input) ==
    IF cmd.compose /\ input \in ServiceNames /\ ServiceVolumes(input) # << >>
    THEN ProjectName \o ServiceVolumes(input)[1]
    ELSE NoName

\* C25: ResolveVolumeName returns (a) the project-prefixed declared volume
\* of the input when a compose file is loaded and declares one; else (b)
\* the input when a volume of that name exists; else (c) the
\* project-prefixed input when such a volume exists; else it fails.  A name
\* from (b) or (c) is the name of an existing volume.
C25_ResolutionOrder ==
    (cmd.name = "resolve" /\ pc = "idle") =>
        LET out == targets[1]
            input == cmd.input
            prefixed == ProjectName \o input
        IN IF DeclaredFor(input) # NoName THEN out = DeclaredFor(input)
           ELSE /\ (out # NoName => out \in DOMAIN volumes)
                /\ IF input \in DOMAIN volumes THEN out = input
                   ELSE IF cmd.compose /\ prefixed \in DOMAIN volumes THEN out = prefixed
                   ELSE out = NoName

\* With a compose file loaded, "data" names no service; volumes data and
\* p_data both exist and the name itself was returned
C25_Witness ==
    /\ cmd.name = "resolve" /\ pc = "idle"
    /\ cmd.compose /\ cmd.input = <<"data">>
    /\ {<<"data">>, PData} \subseteq DOMAIN volumes
    /\ targets = <<<<"data">>>>

\* -------------------------------------- the workflows and the ledger
\* One command line of each workflow that writes, reads or deletes rows
LedgerCommands ==
    {c \in BackupCommands : c.compose /\ c.keepProject = 1 /\ c.services = <<Web, Worker>>}
        \cup {c \in ArchiveCommands : c.compose /\ ~c.quiet /\ c.force /\ ~c.verify
                                         /\ c.services = <<Ghost, Db>>}
        \cup {c \in CleanCommands : c.compose /\ c.unused /\ c.stale = 0 /\ ~c.dryRun
                                       /\ c.force /\ c.archive}
        \cup {c \in SwapCommands : c.service = Web /\ c.source = OldArchive /\ c.restart
                                      /\ ~c.noBackup /\ ~c.empty}
        \cup {c \in RestoreCommands : c.compose /\ c.target = NameTarget(Web) /\ c.force
                                         /\ ~c.select /\ ~c.list}
        \cup {c \in CloneCommands : c.compose /\ c.service = Web /\ c.newName = <<"copy">>}

LedgerNext ==
    \/ \E c \in LedgerCommands : Invoke(c)
    \/ BackupTargets
    \/ BackupLoop
    \/ BackupVolumeCheck
    \/ BackupVolumeRun
    \/ BackupVolumeRecord
    \/ BackupVolumeCleanup
    \/ SwapResolve
    \/ SwapBackup
    \/ SwapStop
    \/ SwapRemove
    \/ SwapCreate
    \/ SwapRestore
    \/ SwapRestart
    \/ SwapRestartOnError
    \/ Archive
    \/ ArchiveLoop
    \/ ArchiveVolumeCheck
    \/ ArchiveVolumeRun
    \/ ArchiveVolumeRemove
    \/ Clean
    \/ CleanLoop
    \/ CleanVolumeArchive
    \/ CleanVolumeRemove
    \/ Restore
    \/ RestoreService
    \/ RestoreConfirm
    \/ RestoreRun
    \/ Clone
    \/ CloneCopy

SpecLedger == InitUsed /\ [][LedgerNext]_vars

\* C26: whenever Backup, Archive, Swap or Clean appends a ledger row, the
\* data-mover run of that invocation for the row's volume has returned
\* success and the file the row names has been written.
C26_RecordAfterSuccessfulRun ==
    [][\A r \in ledger' \ ledger :
          /\ r.filePath \in DOMAIN files'
          /\ \E i \in 1..Len(log') : log'[i] = Call("backup", r.volumeName, TRUE)]_vars

\* Swap has appended the row of its pre-swap backup, the file written
C26_Witness ==
    \E r \in ledger \ snap.ledger :
        /\ r.tag = "swap-backup"
        /\ r.filePath \in DOMAIN files
        /\ HasOkCall("backup")

\* The volumes the invocation has removed
RemovedVolumes == DOMAIN snap.volumes \ DOMAIN volumes
Archiving == cmd.name = "archive" \/ (cmd.name = "clean" /\ cmd.archive)

\* C27: in Archive, and in Clean with the archive option, every removal of
\* a volume comes after a successful data-mover run of that volume in the
\* same invocation; a volume whose archiving did not succeed is still there.
C27_RemoveAfterArchive ==
    Archiving =>
        /\ \A i \in 1..Len(log) :
               log[i].op = "remove" =>
                   \E j \in 1..(i - 1) : log[j] = Call("backup", log[i].vol, TRUE)
        /\ \A v \in RemovedVolumes : OkBackupCalls(v) # {}
        /\ \A v \in DOMAIN snap.volumes :
               (BackupCalls(v) # {} /\ OkBackupCalls(v) = {}) =>
                   (v \in DOMAIN volumes /\ volumes[v] = snap.volumes[v])

\* Clean with the archive option archived and removed one volume, and
\* failed to archive another, which is still there
C27_Witness ==
    /\ cmd.name = "clean" /\ cmd.archive
    /\ \E v \in RemovedVolumes : OkBackupCalls(v) # {}
    /\ \E v \in DOMAIN volumes : BackupCalls(v) # {} /\ OkBackupCalls(v) = {}

\* C28: a ledger row is never changed once appended, and a row disappears
\* only in the retention step of a Backup of the row's own volume: Restore,
\* Swap, Archive, Clean and Clone neither remove nor change a row.
C28_LedgerAppendOnly ==
    [][/\ \A r \in ledger, q \in ledger' : q.id = r.id => q = r
       /\ \A r \in ledger \ ledger' :
              /\ cmd.name = "backup"
              /\ pc = "bv_cleanup"
              /\ r.volumeName = loc.vol]_vars

\* The retention step of a Backup has removed the row the installation
\* started with; the rows that remain are as they were appended
C28_Witness ==
    /\ cmd.name = "backup"
    /\ snap.ledger # {}
    /\ snap.ledger \cap ledger = {}
    /\ ledger # {}

\* ------------------------------------------------ the archive Restore picks
\* Archives the project's backup directory may hold: backups of the shared
\* volume and of the volume of db taken as tar.gz or with --format tar.zst,
\* the pre-swap backup of a Swap of web, and a backup of p_data_old, a
\* volume made by "dvm clone web data_old"
PDataOld == PData \o <<"old">>
ArchiveOf(name, vol, format, t) ==
    [path |-> JoinPath(BackupsDir(ProjectName), GenerateBackupFilename(name, format, t)),
     data |-> OldData(vol), mtime |-> t]
LookupArchives ==
    {ArchiveOf(PData, PData, "tar.gz", 0), ArchiveOf(PData, PData, "tar.zst", 1),
     ArchiveOf(PData, PData, "tar.gz", 1),
     ArchiveOf(Web \o <<"swap", "backup">>, PData, "tar.gz", 2),
     ArchiveOf(PDbData, PDbData, "tar.gz", 1), ArchiveOf(PDbData, PDbData, "tar.zst", 2),
     ArchiveOf(PDataOld, PDataOld, "tar.gz", 2)}
LookupCommands ==
    {c \in RestoreCommands : c.compose /\ c.target \in {NameTarget(Web), NameTarget(Db)}
                               /\ c.force /\ ~c.select /\ ~c.list}

InitLookup ==
    /\ volumes = [v \in AllVolumes |-> LiveData(v)]
    /\ running = Containers
    /\ \E as \in SUBSET LookupArchives :
         files = [p \in {a.path : a \in as} |->
                    LET a == CHOOSE x \in as : x.path = p
                    IN [data |-> a.data, mtime |-> a.mtime]]
    /\ ledger = {}
    /\ nextId = 1
    /\ meta = NoMeta
    /\ InitRun

LookupNext ==
    \/ \E c \in LookupCommands : Invoke(c)
    \/ Restore
    \/ RestoreService
    \/ RestoreConfirm
    \/ RestoreRun

SpecLookup == InitLookup /\ [][LookupNext]_vars

\* The aliases of the target of a Restore by name, once resolved: the given
\* name, the full volume name and the volume name without the project
Aliases == {cmd.target.name, loc.vol, TrimPrefix(loc.vol, Project)}
AliasFiles ==
    {p \in DOMAIN files :
        /\ p.dir = BackupsDir(Project)
        /\ \E n \in Aliases : IsPrefix(n, p.name) /\ Len(p.name) > Len(n)}

RecoverCommands(n) ==
    {c \in SwapCommands : c.service = Web /\ c.compose /\ c.restart /\ c.source \in {NoPath, OldArchive}
                            /\ (n = 0 => c.noBackup /\ c.empty)}
        \cup (IF n = 0 THEN {}
              ELSE {c \in RestoreCommands : c.compose /\ c.target = NameTarget(Web) /\ c.force
                                               /\ ~c.select /\ ~c.list /\ ~c.restart})

InitRecover == InitUsed /\ DOMAIN volumes = AllVolumes

RecoverNext ==
    \/ \E c \in RecoverCommands(runs) : InvokeNext(c)
    \/ SwapResolve
    \/ SwapBackup
    \/ SwapStop
    \/ SwapRemove
    \/ SwapCreate
    \/ SwapRestore
    \/ SwapRestart
    \/ SwapRestartOnError
    \/ Restore
    \/ RestoreService
    \/ RestoreConfirm
    \/ RestoreRun

SpecRecover == InitRecover /\ [][RecoverNext]_vars

\* The invocation started with the shared volume absent: an earlier Swap
\* removed it and did not create it again
StartedVolumeless == runs >= 2 /\ PData \notin DOMAIN snap.volumes

\* C30 (as claimed): after a Swap that removed the volume and failed to
\* create it again, a later Swap of the same service can create it: it is
\* not refused because the volume is absent.
C30_LaterSwapRecreates ==
    (StartedVolumeless /\ cmd.name = "swap" /\ pc = "idle") => result # ErrVolumeNotFound

\* A Swap started without the volume never reaches a step that changes
\* the world
C30_SwapFromVolumelessIsRefused ==
    (StartedVolumeless /\ cmd.name = "swap") => (pc \in {"start", "idle"} /\ World = snap)

\* A Restore started without the volume has created it again
C30_RestoreRecreated ==
    /\ StartedVolumeless /\ cmd.name = "restore" /\ pc = "idle"
    /\ result = Nil
    /\ PData \in DOMAIN volumes

\* C31 (as claimed): after backupVolume runs of a volume that succeeded in
\* every step, with retention enabled, every ledger row of the volume names
\* an archive file that exists, also when two of the runs fell into the
\* same second.
C31_RemainingRecordsHaveFiles ==
    \A v \in AllVolumes :
        (~hist[v].dirty /\ hist[v].made # << >> /\ hist[v].keep > 0 /\ loc.vol # v) =>
            \A r \in RecordsOf(v) : r.filePath \in DOMAIN files

\* ------------------------------------------- a Backup after a Swap
\* "dvm swap web" with its pre-swap backup, then "dvm backup"
RetainCommands(n) ==
    IF n = 0
    THEN {c \in SwapCommands : c.service = Web /\ c.compose /\ ~c.noBackup /\ c.restart
                                 /\ ~c.empty /\ c.source = OldArchive}
    ELSE {c \in BackupCommands : c.compose /\ c.services = << >>
                                   /\ c.keepDefault \in {0, MaxKeep}}

RetainNext ==
    \/ \E c \in RetainCommands(runs) : InvokeNext(c)
    \/ SwapResolve
    \/ SwapBackup
    \/ SwapStop
    \/ SwapRemove
    \/ SwapCreate
    \/ SwapRestore
    \/ SwapRestart
    \/ SwapRestartOnError
    \/ BackupTargets
    \/ BackupLoop
    \/ BackupVolumeCheck
    \/ BackupVolumeRun
    \/ BackupVolumeRecord
    \/ BackupVolumeCleanup

SpecRetain == InitRecover /\ [][RetainNext]_vars

\* C32 (as claimed): a Backup leaves alone the rows that Archive, Swap's
\* pre-swap backup and Clean's archive step wrote, and their files: its
\* retention step deletes rows and files of earlier Backup runs only.
C32_RetentionSparesOtherWorkflows ==
    cmd.name = "backup" =>
        \A r \in snap.ledger :
            r.tag # "" =>
                /\ r \in ledger
                /\ (r.filePath \in DOMAIN snap.files => r.filePath \in DOMAIN files)

\* C33 (as claimed): when Swap returns an error, the containers it stopped
\* have had a restart attempt, also when the stop failed part-way through
\* the list: a container that ran when Swap started and does not run when
\* Swap returns the error was the object of a restart call.
C33_StoppedContainersRestarted ==
    (cmd.name = "swap" /\ pc = "idle" /\ result # Nil) =>
        (snap.running \ running # {} => (HasCall("compensate") \/ HasCall("restart")))

\* C34: Backup never starts a container.  No step of a Backup adds to the
\* running containers, so the containers its --stop stopped are still
\* stopped when it ends, whether the backup of the volume succeeded or
\* failed: after a stop that succeeded no container mounting the volume runs.
C34_BackupNeverRestarts ==
    /\ [](cmd.name = "backup" =>
            /\ ~HasCall("restart")
            /\ \A i \in 1..Len(log) :
                   (log[i].op = "stop" /\ log[i].ok) =>
                       Range(ContainersUsing(log[i].vol)) \cap running = {})
    /\ [][cmd.name = "backup" => running' \subseteq running]_vars

\* A Backup with --stop ended: it stopped the containers of a volume whose
\* backup then failed, and they are still stopped
C34_Witness ==
    /\ cmd.name = "backup" /\ cmd.stop /\ pc = "idle"
    /\ \E i \in 1..Len(log) :
         /\ log[i].op = "stop" /\ log[i].ok
         /\ Range(ContainersUsing(log[i].vol)) # {}
         /\ Range(ContainersUsing(log[i].vol)) \cap running = {}
         /\ \E j \in (i + 1)..Len(log) : log[j] = Call("backup", log[i].vol, FALSE)

\* The volume a Clone's service argument resolved to when Clone started
CloneSource ==
    IF cmd.compose /\ GetFullVolumeName(cmd.service, Project) # NoName
    THEN GetFullVolumeName(cmd.service, Project)
    ELSE IF cmd.service \in DOMAIN snap.volumes THEN cmd.service
    ELSE IF Project # NoName /\ (Project \o cmd.service) \in DOMAIN snap.volumes
    THEN Project \o cmd.service
    ELSE NoName

\* C35 (as claimed): for any valid new name, also one that with the project
\* prefix is the name of the source volume, Clone neither removes nor
\* overwrites its source: the source volume is there with its contents.
C35_CloneKeepsSource ==
    (cmd.name = "clone" /\ cmd.service # NoName /\ cmd.newName # NoName
       /\ ValidVolumeName(cmd.newName) /\ CloneSource \in DOMAIN snap.volumes) =>
        /\ CloneSource \in DOMAIN volumes
        /\ volumes[CloneSource] = snap.volumes[CloneSource]

\* C36 (as claimed): a Restore from the path of an archive that Backup made
\* of volume p_data, with no volume named, restores into p_data whether or
\* not that volume exists: the engine is called for no other volume and no
\* other volume comes into being.
C36_RestoreFromPathIntoOwnVolume ==
    (cmd.name = "restore" /\ cmd.target = PathTarget(OldArchive)) =>
        /\ \A i \in 1..Len(log) : log[i].op = "restore" => log[i].vol = PData
        /\ DOMAIN volumes \subseteq DOMAIN snap.volumes \cup {PData}

\* C37 (as claimed): the archive a Restore by alias selects was made from
\* the volume it restores into, also when the directory holds archives of
\* a volume whose name is the target's name with "_" and more.
C37_RestoreSelectsOwnArchive ==
    (cmd.name = "restore" /\ cmd.target.path = NoPath
       /\ loc.vol # NoName /\ loc.path \in DOMAIN files) =>
        files[loc.path].data = OldData(loc.vol)

\* ------------------------------------------ archive formats, both ways
Formats == {"tar.gz", "tar.zst", "tar"}

\* backupVolume: the format of the archive, from --format or the
\* configuration's compress_format
BackupFormat(optFormat, default) == IF optFormat = "" THEN default ELSE optFormat

\* backupVolume: whether the data-mover is asked to compress
Compress(noCompress, format) == ~noCompress /\ format \in {"tar.gz", "tar.zst"}

\* docker.Client.BackupVolume: tar "c" + "z" + "f" when compress, "cf" otherwise
TarCreateFlags(compress) == IF compress THEN <<"c", "z", "f">> ELSE <<"c", "f">>

\* docker.Client.RestoreVolume: tar flags from the extension of the path
TarExtractFlags(ext) == IF ext \in {"tar.gz", "tgz"} THEN <<"x", "z", "f">> ELSE <<"x", "f">>

\* The patterns of FindBackupFile: <name>_*.tar.gz, then <name>_*.tar.zst
SearchedExtensions == {"tar.gz", "tar.zst"}

\* Whether tar is told to run the stream through gzip
Gzip(flags) == "z" \in Range(flags)

FormatInputs ==
    {[name |-> "formats", format |-> f, noCompress |-> nc, default |-> d, volume |-> v, at |-> t] :
        f \in Formats \cup {""}, nc \in BOOLEAN, d \in Formats, v \in AllVolumes, t \in 0..MaxTime}

\* A Backup of cmd.volume at second cmd.at, and what a later Restore makes
\* of the archive: its path, the tar flags it was written with, and the
\* flags Restore would extract it with
ArchiveRoundTrip ==
    /\ cmd.name = "formats"
    /\ pc = "start"
    /\ LET format == BackupFormat(cmd.format, cmd.default)
           filename == GenerateBackupFilename(cmd.volume, format, cmd.at)
           outputPath == JoinPath(BackupsDir(ProjectName), filename)
       IN Returned([path |-> outputPath,
                    written |-> TarCreateFlags(Compress(cmd.noCompress, format)),
                    extracted |-> TarExtractFlags(outputPath.ext)], "idle")

InitFormats == InitPure(FormatInputs)

SpecFormats == InitFormats /\ [][ArchiveRoundTrip]_vars

\* C38 (as claimed): for every format and --no-compress combination, the
\* extension of the archive Backup writes is one Restore searches for, and
\* Restore extracts with gzip exactly when Backup wrote with gzip.
C38_FormatsRoundTrip ==
    (cmd.name = "formats" /\ pc = "idle") =>
        /\ targets[1].path.ext \in SearchedExtensions
        /\ Gzip(targets[1].extracted) = Gzip(targets[1].written)

\* C39 (as claimed): every deletion candidate of a Clean with --unused
\* alone is a volume whose in-use detection succeeded and found no
\* container mounting it; a detection that failed makes no candidate.
C39_CandidatesDetectedUnused ==
    (cmd.name = "clean" /\ cmd.unused /\ cmd.stale = 0) =>
        \A v \in Range(targets) :
            /\ \A i \in 1..Len(log) : log[i] # Call("in-use-error", v, FALSE)
            /\ Len(ContainersUsing(v)) = 0

\* ------------------------------------- two invocations, one directory
\* Two "dvm backup" processes run docker.Client.BackupVolume at the same
\* time on different volumes with the same output directory.  Here cmd, pc,
\* loc and result hold one value per process; the file system is shared.
Procs == {1, 2}
MixedData == <<"mixed">>

\* filepath.Join(outputDir, "data.tar.gz"): the path tar writes to, as the
\* host sees it
TempPath(outputDir) == JoinPath(outputDir, [name |-> <<"data">>, ext |-> "tar.gz"])

InitConcurrent ==
    /\ volumes = [v \in AllVolumes |-> LiveData(v)]
    /\ running = Containers
    /\ files = NoFiles
    /\ ledger = {}
    /\ nextId = 1
    /\ meta = NoMeta
    /\ now = 0
    /\ runs = 0
    /\ \E vs \in Perms(AllVolumes) :
         cmd = [p \in Procs |-> [name |-> "backup", volume |-> vs[p], compose |-> TRUE]]
    /\ pc = [p \in Procs |-> "start"]
    /\ targets = << >>
    /\ idx = 0
    /\ loc = [p \in Procs |-> [path |-> NoPath, file |-> NoPath, shared |-> FALSE]]
    /\ result = [p \in Procs |-> Nil]
    /\ log = << >>
    /\ report = << >>
    /\ snap = [volumes |-> << >>, running |-> {}, files |-> << >>, ledger |-> {}, meta |-> << >>]
    /\ hist = [v \in AllVolumes |-> NoHistory]

concurrentFixed == <<volumes, running, ledger, nextId, meta, runs, cmd, targets, idx, log,
                     report, snap, hist>>

\* The processes whose tar is writing to the file at path f
Writers(f) == {q \in Procs : pc[q] = "tar" /\ loc[q].file = f}

\* BackupVolume of process p up to the start of its container: the output
\* path is named at the clock's second; ContainerCreate or ContainerStart
\* may fail; tar then creates or truncates /backup/data.tar.gz
BackupVolumeStart(p) ==
    /\ pc[p] = "start"
    /\ UNCHANGED concurrentFixed
    /\ \E ok \in BOOLEAN, dt \in {0, 1} :
         LET outputDir == BackupsDir(ProjectName)
             outputPath == JoinPath(outputDir,
                                    GenerateBackupFilename(cmd[p].volume, DefaultFormat, now))
             temp == TempPath(outputDir)
             others == Writers(temp)
         IN /\ now' = Advance(now, dt)
            /\ IF ~ok
               THEN /\ dt = 0
                    /\ pc' = [pc EXCEPT ![p] = "idle"]
                    /\ result' = [result EXCEPT ![p] = EngineErr("backup")]
                    /\ UNCHANGED <<files, loc>>
               ELSE /\ files' = WriteFile(files, temp, PartialData, now')
                    /\ loc' = [q \in Procs |->
                                 IF q = p
                                 THEN [path |-> outputPath, file |-> temp, shared |-> others # {}]
                                 ELSE IF q \in others THEN [loc[q] EXCEPT !.shared = TRUE]
                                 ELSE loc[q]]
                    /\ pc' = [pc EXCEPT ![p] = "tar"]
                    /\ UNCHANGED result

\* The container of process p exits: tar has written the volume into the
\* file it opened, wherever a rename has moved that file since; when
\* another tar wrote to the same file meanwhile, the content is this
\* volume's archive, the other's, or a mixture.  A non-zero status returns.
BackupVolumeWait(p) ==
    /\ pc[p] = "tar"
    /\ UNCHANGED concurrentFixed
    /\ UNCHANGED <<loc, now>>
    /\ \E ok \in BOOLEAN :
         LET f == loc[p].file
             others == Writers(f) \ {p}
             contents == IF loc[p].shared
                         THEN {LiveData(cmd[p].volume), MixedData}
                                \cup {LiveData(cmd[q].volume) : q \in others}
                         ELSE {LiveData(cmd[p].volume)}
         IN IF ~ok
            THEN /\ pc' = [pc EXCEPT ![p] = "idle"]
                 /\ result' = [result EXCEPT ![p] = Wrap("backup failed with status", EngineErr("backup"))]
                 /\ UNCHANGED files
            ELSE /\ \E data \in contents :
                      files' = WriteFile(files, f, data, files[f].mtime)
                 /\ pc' = [pc EXCEPT ![p] = "rename"]
                 /\ UNCHANGED result

\* os.Rename(tempPath, outputPath) of process p: an error when no file is
\* at tempPath; a tar still writing to the file keeps writing to it under
\* its new name
BackupVolumeRename(p) ==
    /\ pc[p] = "rename"
    /\ UNCHANGED concurrentFixed
    /\ UNCHANGED now
    /\ LET temp == TempPath(BackupsDir(ProjectName))
       IN IF temp \notin DOMAIN files
          THEN /\ result' = [result EXCEPT ![p] = Err("fs: rename")]
               /\ pc' = [pc EXCEPT ![p] = "idle"]
               /\ UNCHANGED <<files, loc>>
          ELSE /\ files' = RemoveFiles(WriteFile(files, loc[p].path, files[temp].data,
                                                 files[temp].mtime), {temp})
               /\ loc' = [q \in Procs |->
                            IF q \in Writers(temp) THEN [loc[q] EXCEPT !.file = loc[p].path]
                            ELSE loc[q]]
               /\ pc' = [pc EXCEPT ![p] = "idle"]
               /\ UNCHANGED result

ConcurrentNext ==
    \E p \in Procs :
        \/ BackupVolumeStart(p)
        \/ BackupVolumeWait(p)
        \/ BackupVolumeRename(p)

SpecConcurrent == InitConcurrent /\ [][ConcurrentNext]_vars

\* Both processes have returned and the engine failed neither container
BothRan ==
    /\ \A p \in Procs : pc[p] = "idle"
    /\ \A p \in Procs : Range(EngineErr("backup").chain) \cap Range(result[p].chain) = {}

\* C40 (as claimed): when two invocations back up different volumes into
\* the same directory at the same time and the engine fails neither, both
\* complete and the archive of each holds the data of its own volume.
C40_ConcurrentBackupsKeepTheirData ==
    (DOMAIN pc = Procs /\ BothRan) =>
        \A p \in Procs :
            /\ result[p] = Nil
            /\ loc[p].path \in DOMAIN files
            /\ files[loc[p].path].data = LiveData(cmd[p].volume)

====
